---- MODULE Spec2Model ----
(***************************************************************************)
(* Ants vs. Bees: the simulation engine of src/src/game.ts and             *)
(* src/src/ants.ts (Place, Hive, AntColony, AntGame and the insect         *)
(* classes) as a state machine.                                            *)
(*                                                                         *)
(* One call of AntGame.takeTurn is a run of steps that nothing else can    *)
(* interleave with (JavaScript is single threaded): the snapshot of        *)
(* antsAct, one step per ant of the snapshot, the snapshot of beesAct, one *)
(* step per bee of the snapshot, placesAct, Hive.invade, and turn++.       *)
(* `phase` is the position inside takeTurn and `queue` what is left of     *)
(* the snapshot being iterated.  The commands of the shell (deploy,        *)
(* remove, boost) and Hive.addWave run only between two turns.             *)
(***************************************************************************)
EXTENDS Integers, Sequences, FiniteSets, TLC

VARIABLES
  grid,       \* the arguments AntColony.places was built from
  hive,       \* Hive.beeArmor and Hive.beeDamage
  food,       \* AntColony.food
  boosts,     \* AntColony.boosts : boost name -> count
  ant,        \* Place.ant of every tunnel place (with the ant's own fields)
  guard,      \* Place.guard of every tunnel place
  bees,       \* Place.bees of every tunnel place (ordered)
  queenBees,  \* AntColony.queenPlace.bees
  hiveBees,   \* Hive.bees
  waves,      \* Hive.waves : attack turn -> list of bees
  bee,        \* every Bee created so far: armor, status, place
  turn,       \* AntGame.turn
  phase,      \* position inside AntGame.takeTurn ("idle" between turns)
  queue,      \* rest of the snapshot iterated by antsAct / beesAct
  last,       \* the last operation and the string it returned
  events,     \* the reduceArmor calls made by the last step
  digest,     \* per place, for an Eater with a bee in its stomach: how many
              \* times it has acted since it ate, and whether it was hit since
  scheduled,  \* per bee: the attack turn its addWave call named, or Late
              \* when the call came after the takeTurn of that turn
  round,      \* for the running antsAct or beesAct: the insects on the board
              \* when it began, where the bees were, and the act() calls made
  err         \* an uncaught TypeError has been raised

vars == <<grid, hive, food, boosts, ant, guard, bees, queenBees, hiveBees, waves, bee,
          turn, phase, queue, last, events, digest, scheduled, round, err>>

(***************************************************************************)
(* Board topology (AntColony.constructor)                                  *)
(***************************************************************************)
NumTunnels == grid.numTunnels
TunnelLength == grid.tunnelLength
MoatFrequency == grid.moatFrequency
BeeArmor == hive.beeArmor
BeeDamage == hive.beeDamage

Cells == (0 .. NumTunnels - 1) \X (0 .. TunnelLength - 1)

\* Place references.  k is "cell", "queen", "hive", "stomach" (the stomach
\* of the Eater standing at c), "lost" (the stomach of an Eater that is no
\* longer on the board) or "none" (undefined).
P(k, c) == [k |-> k, c |-> c]
CellP(c) == P("cell", c)
QueenP == P("queen", <<0, 0>>)
HiveP == P("hive", <<0, 0>>)
StomachP(c) == P("stomach", c)
LostP == P("lost", <<0, 0>>)
NoPlace == P("none", <<0, 0>>)

IsWater(c) == MoatFrequency # 0 /\ (c[2] + 1) % MoatFrequency = 0

\* Place.exit of a tunnel place: one step toward the queen.
GetExit(c) == IF c[2] = 0 THEN QueenP ELSE CellP(<<c[1], c[2] - 1>>)

\* Place.entrance of a tunnel place: one step toward the hive.
Entrance(c) ==
  IF c[2] + 1 < TunnelLength THEN CellP(<<c[1], c[2] + 1>>) ELSE NoPlace

\* AntColony.beeEntrances
GetEntrances == [t \in 1 .. NumTunnels |-> <<t - 1, TunnelLength - 1>>]

\* places[i][j] in the order of the nested loops (row by row).
RECURSIVE CellsFrom(_, _)
CellsFrom(i, j) ==
  IF i >= NumTunnels THEN <<>>
  ELSE IF j >= TunnelLength THEN CellsFrom(i + 1, 0)
  ELSE <<(<<i, j>>)>> \o CellsFrom(i, j + 1)
PlaceOrder == CellsFrom(0, 0)

(***************************************************************************)
(* Insects                                                                 *)
(***************************************************************************)
AntTypes == {"Grower", "Thrower", "Eater", "Scuba", "Guard"}
BoostNames == {"FlyingLeaf", "StickyLeaf", "IcyLeaf", "BugSpray"}

\* new XAnt(): super(armor, foodCost)
GrowerArmor == 1
GrowerCost == 1
ThrowerArmor == 1
ThrowerCost == 4
ThrowerDamage == 1
EaterArmor == 2
EaterCost == 4
ScubaArmor == 1
ScubaCost == 5
ScubaDamage == 1
GuardArmor == 2
GuardCost == 4
SprayDamage == 10

InitialArmor(t) ==
  CASE t = "Grower" -> GrowerArmor
    [] t = "Thrower" -> ThrowerArmor
    [] t = "Eater" -> EaterArmor
    [] t = "Scuba" -> ScubaArmor
    [] t = "Guard" -> GuardArmor

GetFoodCost(t) ==
  CASE t = "Grower" -> GrowerCost
    [] t = "Thrower" -> ThrowerCost
    [] t = "Eater" -> EaterCost
    [] t = "Scuba" -> ScubaCost
    [] t = "Guard" -> GuardCost

\* An empty slot (undefined), and a freshly constructed ant.  boost "none" is
\* undefined; turnsEating and stomach are the Eater's fields.
NoAnt == [type |-> "none", armor |-> 0, boost |-> "none",
          turnsEating |-> 0, stomach |-> <<>>]
NewAnt(t) == [type |-> t, armor |-> InitialArmor(t), boost |-> "none",
              turnsEating |-> 0, stomach |-> <<>>]

\* new Bee(armor, damage, place); status "none" is undefined.
NewBee(a, d, p) == [armor |-> a, damage |-> d, status |-> "none", place |-> p]

NoBee == 0

(***************************************************************************)
(* The state as one record, so that the methods are operators from state   *)
(* to state.                                                               *)
(***************************************************************************)
Cur == [food |-> food, boosts |-> boosts, ant |-> ant, guard |-> guard,
        bees |-> bees, queenBees |-> queenBees, hiveBees |-> hiveBees,
        waves |-> waves, bee |-> bee, events |-> <<>>, err |-> err]

\* The record of digestions after a step that ends in state s and in which
\* the ant of place actor (if any) has acted.
NoCell == <<-1, -1>>
Fresh == [acts |-> 0, hurt |-> FALSE]
Digesting(a) == a.type = "Eater" /\ a.stomach # <<>>
HitAt(evs, c) ==
  \E i \in 1 .. Len(evs) :
    evs[i].who.kind = "ant" /\ evs[i].who.c = c /\ evs[i].who.slot = "ant"
NextDigest(s, actor) ==
  [c \in DOMAIN ant |->
     IF ~Digesting(s.ant[c]) \/ ~Digesting(ant[c]) THEN Fresh
     ELSE [acts |-> digest[c].acts + (IF actor = c THEN 1 ELSE 0),
           hurt |-> digest[c].hurt \/ HitAt(s.events, c)]]

Commit(s) ==
  /\ food' = s.food
  /\ boosts' = s.boosts
  /\ ant' = s.ant
  /\ guard' = s.guard
  /\ bees' = s.bees
  /\ queenBees' = s.queenBees
  /\ hiveBees' = s.hiveBees
  /\ waves' = s.waves
  /\ bee' = s.bee
  /\ events' = s.events
  /\ err' = s.err

\* What a step of the program leaves behind: the fields, and the ghost of
\* the Eaters (actor is the cell of the ant that acted, or NoCell).
CommitStep(s, actor) == Commit(s) /\ digest' = NextDigest(s, actor)

\* A TypeError nobody catches: the step is abandoned where it stands.
Throw(s) == [s EXCEPT !.err = TRUE]

\* Place.getBees
GetBees(s, p) ==
  CASE p.k = "cell" -> s.bees[p.c]
    [] p.k = "queen" -> s.queenBees
    [] p.k = "hive" -> s.hiveBees
    [] p.k = "stomach" -> s.ant[p.c].stomach
    [] OTHER -> <<>>

SetBees(s, p, list) ==
  CASE p.k = "cell" -> [s EXCEPT !.bees[p.c] = list]
    [] p.k = "queen" -> [s EXCEPT !.queenBees = list]
    [] p.k = "hive" -> [s EXCEPT !.hiveBees = list]
    [] p.k = "stomach" -> [s EXCEPT !.ant[p.c].stomach = list]
    [] OTHER -> s

\* Array.indexOf, 1-based; 0 when absent.
IndexOf(list, x) ==
  IF \E i \in 1 .. Len(list) : list[i] = x
  THEN CHOOSE i \in 1 .. Len(list) :
         list[i] = x /\ \A j \in 1 .. i - 1 : list[j] # x
  ELSE 0

\* Array.splice(index, 1)
Splice(list, i) == SubSeq(list, 1, i - 1) \o SubSeq(list, i + 1, Len(list))

\* Place.addBee
AddBee(s, p, b) ==
  LET s1 == SetBees(s, p, Append(GetBees(s, p), b))
  IN [s1 EXCEPT !.bee[b].place = p]

\* Place.removeBee
RemoveBee(s, p, b) ==
  LET index == IndexOf(GetBees(s, p), b)
  IN IF index >= 1
     THEN LET s1 == SetBees(s, p, Splice(GetBees(s, p), index))
          IN [s1 EXCEPT !.bee[b].place = NoPlace]
     ELSE s

\* Place.exitBee
ExitBee(s, c, b) == AddBee(RemoveBee(s, CellP(c), b), GetExit(c), b)

\* Place.getAnt: the guard if there is one, else the ant.
GetAnt(s, c) == IF s.guard[c].type # "none" THEN s.guard[c] ELSE s.ant[c]

\* The slot Place.getAnt reads.
VisibleSlot(s, c) == IF s.guard[c].type # "none" THEN "guard" ELSE "ant"

\* Place.getGuardedAnt
GetGuardedAnt(s, c) == s.ant[c]

\* Place.getClosestBee
RECURSIVE ClosestFrom(_, _, _, _, _)
ClosestFrom(s, p, dist, maxDistance, minDistance) ==
  IF p = NoPlace \/ dist > maxDistance THEN NoBee
  ELSE IF dist >= minDistance /\ Len(GetBees(s, p)) > 0
       THEN GetBees(s, p)[1]
       ELSE ClosestFrom(s, Entrance(p.c), dist + 1, maxDistance, minDistance)
\* Mutant of GetClosestBee: the loop stops one hop short (dist < maxDistance).
RECURSIVE ClosestShortFrom(_, _, _, _, _)
ClosestShortFrom(s, p, dist, maxDistance, minDistance) ==
  IF p = NoPlace \/ dist >= maxDistance THEN NoBee
  ELSE IF dist >= minDistance /\ Len(GetBees(s, p)) > 0
       THEN GetBees(s, p)[1]
       ELSE ClosestShortFrom(s, Entrance(p.c), dist + 1, maxDistance, minDistance)
GetClosestBeeShort(s, c, maxDistance, minDistance) ==
  ClosestShortFrom(s, CellP(c), 0, maxDistance, minDistance)

\* Mutant of GetClosestBee: a place next to the queen looks at the queen's
\* place first.
GetClosestBeeBehind(s, c, maxDistance, minDistance) ==
  IF c[2] = 0 /\ Len(s.queenBees) > 0 THEN s.queenBees[1]
  ELSE ClosestFrom(s, CellP(c), 0, maxDistance, minDistance)

GetClosestBee(s, c, maxDistance, minDistance) ==
  ClosestFrom(s, CellP(c), 0, maxDistance, minDistance)

\* An ant object leaves the board for good: the bees in its stomach stay in
\* a stomach nothing refers to any more.
RECURSIVE LoseBees(_, _)
LoseBees(s, list) ==
  IF list = <<>> THEN s
  ELSE LoseBees([s EXCEPT !.bee[Head(list)].place = LostP], Tail(list))

\* Place.addAnt: [s |-> state, ok |-> the boolean returned]
AddAnt(s, c, a) ==
  IF a.type = "Guard"
  THEN IF s.guard[c].type = "none"
       THEN [s |-> [s EXCEPT !.guard[c] = a], ok |-> TRUE]
       ELSE [s |-> s, ok |-> FALSE]
  ELSE IF s.ant[c].type = "none"
       THEN [s |-> [s EXCEPT !.ant[c] = a], ok |-> TRUE]
       ELSE [s |-> s, ok |-> FALSE]

\* Place.removeAnt: the guard if there is one, else the ant.
RemoveAnt(s, c) ==
  IF s.guard[c].type # "none"
  THEN [s EXCEPT !.guard[c] = NoAnt]
  ELSE LET s1 == LoseBees(s, s.ant[c].stomach)
       IN [s1 EXCEPT !.ant[c] = NoAnt]

(***************************************************************************)
(* reduceArmor                                                             *)
(***************************************************************************)
\* The insect a call is made on: a bee (by number) or the ant object held
\* in a slot ("ant" or "guard") of place c.
BeeRef(b) == [kind |-> "bee", b |-> b, c |-> <<0, 0>>, slot |-> "none"]
AntRef(c, slot) == [kind |-> "ant", b |-> 0, c |-> c, slot |-> slot]

SlotOf(s, w) == IF w.slot = "guard" THEN s.guard[w.c] ELSE s.ant[w.c]
ArmorOf(s, w) == IF w.kind = "bee" THEN s.bee[w.b].armor ELSE SlotOf(s, w).armor
SetArmor(s, w, a) ==
  IF w.kind = "bee" THEN [s EXCEPT !.bee[w.b].armor = a]
  ELSE IF w.slot = "guard" THEN [s EXCEPT !.guard[w.c].armor = a]
  ELSE [s EXCEPT !.ant[w.c].armor = a]

\* Whether the insect is still held by the place it stands in.
Attached(s, w) ==
  IF w.kind = "bee" THEN s.bee[w.b].place # NoPlace
  ELSE SlotOf(s, w).type # "none"

\* Place.removeInsect: an Ant is removed by removeAnt(), which does not look
\* at which ant it was given; a Bee by removeBee(bee).
RemoveInsect(s, w) ==
  IF w.kind = "ant" THEN RemoveAnt(s, w.c)
  ELSE RemoveBee(s, s.bee[w.b].place, w.b)

\* Insect.reduceArmor: [s |-> state, ret |-> the boolean returned,
\* armor |-> this.armor when it returns]
InsectReduceArmor(s, w, amount) ==
  LET s1 == SetArmor(s, w, ArmorOf(s, w) - amount)
      a == ArmorOf(s1, w)
  IN IF a <= 0
     THEN IF w.kind = "bee" /\ s1.bee[w.b].place = NoPlace
          THEN [s |-> Throw(s1), ret |-> FALSE, armor |-> a]
          ELSE [s |-> RemoveInsect(s1, w), ret |-> TRUE, armor |-> a]
     ELSE [s |-> s1, ret |-> FALSE, armor |-> a]

\* The cough without stomach.removeBee(eaten): the bee is pushed on the
\* place's list and stays on the stomach's.
CoughUpCopy(s, c) ==
  IF s.ant[c].stomach = <<>> THEN Throw(s)
  ELSE AddBee(s, CellP(c), s.ant[c].stomach[1])

\* The body shared by the two branches of EaterAnt.reduceArmor: the first bee
\* of the stomach is moved back to the Eater's place.
CoughUp(s, c) ==
  IF s.ant[c].stomach = <<>> THEN Throw(s)
  ELSE LET eaten == s.ant[c].stomach[1]
       IN AddBee(RemoveBee(s, StomachP(c), eaten), CellP(c), eaten)

\* EaterAnt.reduceArmor with the counter left at 1 after the bee is coughed
\* up (what the method would be without its assignment of 3).
EaterReduceArmorNoSkip(s, c, amount) ==
  LET w == AntRef(c, "ant")
      s1 == SetArmor(s, w, ArmorOf(s, w) - amount)
      a == ArmorOf(s1, w)
  IN IF a > 0
     THEN IF s1.ant[c].turnsEating = 1
          THEN [s |-> CoughUp(s1, c), ret |-> FALSE, armor |-> a]
          ELSE [s |-> s1, ret |-> FALSE, armor |-> a]
     ELSE LET s2 == IF s1.ant[c].turnsEating > 0 /\ s1.ant[c].turnsEating <= 2
                    THEN CoughUp(s1, c) ELSE s1
          IN IF s2.err THEN [s |-> s2, ret |-> FALSE, armor |-> a]
             ELSE InsectReduceArmor(s2, w, amount)

\* EaterAnt.reduceArmor (the Eater stands in the ant slot of c)
EaterReduceArmor(s, c, amount) ==
  LET w == AntRef(c, "ant")
      s1 == SetArmor(s, w, ArmorOf(s, w) - amount)
      a == ArmorOf(s1, w)
  IN IF a > 0
     THEN IF s1.ant[c].turnsEating = 1
          THEN LET s2 == CoughUp(s1, c)
               IN [s |-> IF s2.err THEN s2
                         ELSE [s2 EXCEPT !.ant[c].turnsEating = 3],
                   ret |-> FALSE, armor |-> a]
          ELSE [s |-> s1, ret |-> FALSE, armor |-> a]
     ELSE LET s2 == IF s1.ant[c].turnsEating > 0 /\ s1.ant[c].turnsEating <= 2
                    THEN CoughUp(s1, c) ELSE s1
          IN IF s2.err THEN [s |-> s2, ret |-> FALSE, armor |-> a]
             ELSE InsectReduceArmor(s2, w, amount)

\* insect.reduceArmor(amount), dispatched on the class of the insect; the
\* call is recorded in events.
Recorded(s, w, amount, r) ==
  [r.s EXCEPT !.events =
     Append(@, [who |-> w,
                type |-> IF w.kind = "bee" THEN "Bee" ELSE SlotOf(s, w).type,
                amount |-> amount, before |-> ArmorOf(s, w),
                turnsEating |-> IF w.kind = "bee" THEN 0
                                ELSE SlotOf(s, w).turnsEating,
                after |-> r.armor,
                wasAttached |-> Attached(s, w),
                attached |-> Attached(r.s, w), ret |-> r.ret,
                guarded |-> w.kind = "ant" /\ w.slot = "ant"
                            /\ s.guard[w.c].type # "none"])]

ReduceArmor(s, w, amount) ==
  Recorded(s, w, amount,
           IF w.kind = "ant" /\ SlotOf(s, w).type = "Eater"
           THEN EaterReduceArmor(s, w.c, amount)
           ELSE InsectReduceArmor(s, w, amount))

(***************************************************************************)
(* The insects' actions                                                    *)
(***************************************************************************)
\* Bee.isBlocked
IsBlocked(s, b) == GetAnt(s, s.bee[b].place.c).type # "none"

\* Mutant of Sting: the bee stings the ant under the guard when there is one.
StingGuarded(s, b, c) ==
  ReduceArmor(s, AntRef(c, IF s.ant[c].type # "none" THEN "ant" ELSE "guard"),
              s.bee[b].damage)

\* Bee.sting: reduceArmor on the ant Place.getAnt returned.
Sting(s, b, c) == ReduceArmor(s, AntRef(c, VisibleSlot(s, c)), s.bee[b].damage)

\* Bee.act with the two tests in one chain: a bee that does not sting moves
\* unless it is stuck, also when an ant stands in its way.
BeeActFlat(s, b) ==
  IF s.bee[b].place.k # "cell" THEN Throw(s)
  ELSE LET c == s.bee[b].place.c
           s1 == IF IsBlocked(s, b) /\ s.bee[b].status # "cold"
                 THEN Sting(s, b, c)
                 ELSE IF s.bee[b].armor > 0 /\ s.bee[b].status # "stuck"
                      THEN ExitBee(s, c, b) ELSE s
       IN [s1 EXCEPT !.bee[b].status = "none"]

\* Bee.act
BeeAct(s, b) ==
  IF s.bee[b].place.k # "cell" THEN Throw(s)
  ELSE LET c == s.bee[b].place.c
           s1 == IF IsBlocked(s, b)
                 THEN IF s.bee[b].status # "cold" THEN Sting(s, b, c) ELSE s
                 ELSE IF s.bee[b].armor > 0
                      THEN IF s.bee[b].status # "stuck"
                           THEN ExitBee(s, c, b) ELSE s
                      ELSE s
       IN [s1 EXCEPT !.bee[b].status = "none"]

\* The outcomes of Math.random() that GrowerAnt.act tells apart.
Rolls == {"food", "FlyingLeaf", "StickyLeaf", "IcyLeaf", "BugSpray", "nothing"}

\* AntColony.addBoost
AddBoost(s, boost) == [s EXCEPT !.boosts[boost] = @ + 1]

\* AntColony.increaseFood
IncreaseFood(s, amount) == [s EXCEPT !.food = @ + amount]

\* GrowerAnt.act
GrowerAct(s, roll) ==
  IF roll = "food" THEN IncreaseFood(s, 1)
  ELSE IF roll \in BoostNames THEN AddBoost(s, roll)
  ELSE s

\* The while loop of the BugSpray branch: the closest bee at distance 0 is
\* hit until the place has no bee left.
RECURSIVE SprayBees(_, _)
SprayBees(s, c) ==
  LET target == GetClosestBee(s, c, 0, 0)
  IN IF target = NoBee \/ s.err THEN s
     ELSE SprayBees(ReduceArmor(s, BeeRef(target), SprayDamage), c)

\* ThrowerAnt.act and ScubaAnt.act without the last assignment of the throw
\* (this.boost = undefined): the ant keeps its boost after using it.
ThrowerActHoarding(s, c, damage) ==
  LET boost == s.ant[c].boost
  IN IF boost # "BugSpray"
     THEN LET target == IF boost = "FlyingLeaf"
                        THEN GetClosestBee(s, c, 5, 0)
                        ELSE GetClosestBee(s, c, 3, 0)
          IN IF target # NoBee
             THEN [ReduceArmor(s, BeeRef(target), damage) EXCEPT
                     !.bee[target].status =
                        IF boost = "StickyLeaf" THEN "stuck"
                        ELSE IF boost = "IcyLeaf" THEN "cold" ELSE @]
             ELSE s
     ELSE ReduceArmor(SprayBees(s, c), AntRef(c, "ant"), SprayDamage)

\* Mutant of ThrowerAct: the search starts one place away, so a bee in the
\* Thrower's own place is not a target.
ThrowerActFar(s, c, damage) ==
  LET boost == s.ant[c].boost
  IN IF boost # "BugSpray"
     THEN LET target == IF boost = "FlyingLeaf"
                        THEN GetClosestBee(s, c, 5, 1)
                        ELSE GetClosestBee(s, c, 3, 1)
          IN IF target # NoBee
             THEN [ReduceArmor(s, BeeRef(target), damage) EXCEPT
                     !.bee[target].status =
                        IF boost = "StickyLeaf" THEN "stuck"
                        ELSE IF boost = "IcyLeaf" THEN "cold" ELSE @,
                     !.ant[c].boost = "none"]
             ELSE s
     ELSE ReduceArmor(SprayBees(s, c), AntRef(c, "ant"), SprayDamage)

\* ThrowerAnt.act and ScubaAnt.act (the same text, with their own damage)
ThrowerAct(s, c, damage) ==
  LET boost == s.ant[c].boost
  IN IF boost # "BugSpray"
     THEN LET target == IF boost = "FlyingLeaf"
                        THEN GetClosestBee(s, c, 5, 0)
                        ELSE GetClosestBee(s, c, 3, 0)
          IN IF target # NoBee
             THEN [ReduceArmor(s, BeeRef(target), damage) EXCEPT
                     !.bee[target].status =
                        IF boost = "StickyLeaf" THEN "stuck"
                        ELSE IF boost = "IcyLeaf" THEN "cold" ELSE @,
                     !.ant[c].boost = "none"]
             ELSE s
     ELSE ReduceArmor(SprayBees(s, c), AntRef(c, "ant"), SprayDamage)

\* Mutant of EaterAct: the stomach is emptied one action early
\* (turnsEating > 2).
EaterActEarly(s, c) ==
  IF s.ant[c].turnsEating = 0
  THEN LET target == GetClosestBee(s, c, 0, 0)
       IN IF target # NoBee
          THEN LET s1 == AddBee(RemoveBee(s, CellP(c), target), StomachP(c), target)
               IN [s1 EXCEPT !.ant[c].turnsEating = 1]
          ELSE s
  ELSE IF s.ant[c].turnsEating > 2
       THEN LET s1 == IF s.ant[c].stomach = <<>> THEN s
                      ELSE RemoveBee(s, StomachP(c), s.ant[c].stomach[1])
            IN [s1 EXCEPT !.ant[c].turnsEating = 0]
       ELSE [s EXCEPT !.ant[c].turnsEating = @ + 1]

\* EaterAnt.act without the assignment this.turnsEating = 1: the Eater that
\* has eaten goes on eating.
EaterActGreedy(s, c) ==
  IF s.ant[c].turnsEating = 0
  THEN LET target == GetClosestBee(s, c, 0, 0)
       IN IF target # NoBee
          THEN AddBee(RemoveBee(s, CellP(c), target), StomachP(c), target)
          ELSE s
  ELSE IF s.ant[c].turnsEating > 3
       THEN LET s1 == IF s.ant[c].stomach = <<>> THEN s
                      ELSE RemoveBee(s, StomachP(c), s.ant[c].stomach[1])
            IN [s1 EXCEPT !.ant[c].turnsEating = 0]
       ELSE [s EXCEPT !.ant[c].turnsEating = @ + 1]

\* EaterAnt.act
EaterAct(s, c) ==
  IF s.ant[c].turnsEating = 0
  THEN LET target == GetClosestBee(s, c, 0, 0)
       IN IF target # NoBee
          THEN LET s1 == AddBee(RemoveBee(s, CellP(c), target), StomachP(c), target)
               IN [s1 EXCEPT !.ant[c].turnsEating = 1]
          ELSE s
  ELSE IF s.ant[c].turnsEating > 3
       THEN LET s1 == IF s.ant[c].stomach = <<>> THEN s
                      ELSE RemoveBee(s, StomachP(c), s.ant[c].stomach[1])
            IN [s1 EXCEPT !.ant[c].turnsEating = 0]
       ELSE [s EXCEPT !.ant[c].turnsEating = @ + 1]

\* ant.act(colony) for the ant in the ant slot of c, dispatched on its class.
AntActAt(s, c, roll) ==
  LET t == s.ant[c].type
  IN CASE t = "Grower" -> GrowerAct(s, roll)
       [] t = "Thrower" -> ThrowerAct(s, c, ThrowerDamage)
       [] t = "Scuba" -> ThrowerAct(s, c, ScubaDamage)
       [] t = "Eater" -> EaterAct(s, c)
       [] OTHER -> s

\* The body of the forEach of AntColony.antsAct for one ant of the snapshot:
\* a guard lets the ant it guards act, then acts itself (GuardAnt.act does
\* nothing); any other ant acts.
AntsActOne(s, q, roll) ==
  IF q.slot = "guard" /\ GetGuardedAnt(s, q.c).type = "none" THEN s
  ELSE AntActAt(s, q.c, roll)

\* AntColony.getAllAnts listing the guard and the ant of a place that has
\* both (getAnt and getGuardedAnt pushed one after the other).
RECURSIVE AllAntsBothFrom(_, _)
AllAntsBothFrom(s, order) ==
  IF order = <<>> THEN <<>>
  ELSE LET c == Head(order)
       IN (IF s.guard[c].type # "none" THEN <<[c |-> c, slot |-> "guard"]>>
           ELSE <<>>)
          \o (IF s.ant[c].type # "none" THEN <<[c |-> c, slot |-> "ant"]>>
              ELSE <<>>)
          \o AllAntsBothFrom(s, Tail(order))
GetAllAntsBoth(s) == AllAntsBothFrom(s, PlaceOrder)

\* AntColony.getAllAnts: the visible ant of every place that has one.
RECURSIVE AllAntsFrom(_, _)
AllAntsFrom(s, order) ==
  IF order = <<>> THEN <<>>
  ELSE LET c == Head(order)
       IN (IF GetAnt(s, c).type # "none"
           THEN <<[c |-> c, slot |-> VisibleSlot(s, c)]>> ELSE <<>>)
          \o AllAntsFrom(s, Tail(order))
GetAllAnts(s) == AllAntsFrom(s, PlaceOrder)

\* AntColony.getAllBees: the bees of the tunnel places, row by row.
RECURSIVE AllBeesFrom(_, _)
AllBeesFrom(s, order) ==
  IF order = <<>> THEN <<>>
  ELSE s.bees[Head(order)] \o AllBeesFrom(s, Tail(order))
GetAllBees(s) == AllBeesFrom(s, PlaceOrder)

\* The insects that stand in the tunnel places: every ant and every guard, and
\* every bee of a place's list.
AntsOnBoard(s) ==
  {AntRef(c, "ant") : c \in {d \in Cells : s.ant[d].type # "none"}}
  \cup {AntRef(c, "guard") : c \in {d \in Cells : s.guard[d].type # "none"}}
BeesOnBoard(s) ==
  {BeeRef(b) : b \in {x \in 1 .. Len(s.bee) : s.bee[x].place.k = "cell"}}
NoRound == [present |-> {}, from |-> <<>>, acted |-> <<>>]

\* The act() calls of one iteration of the forEach of antsAct, in order: for
\* a guard, the ant it guards (if any) and then the guard.
ActCalls(s, q) ==
  IF q.slot = "guard"
  THEN (IF GetGuardedAnt(s, q.c).type # "none"
        THEN <<AntRef(q.c, "ant")>> ELSE <<>>) \o <<AntRef(q.c, "guard")>>
  ELSE <<AntRef(q.c, "ant")>>

\* Mutant of PlaceAct: one removeAnt() only, so that the ant under an expelled
\* guard stays in the water.
PlaceActOnce(s, c) ==
  IF IsWater(c)
  THEN IF s.guard[c].type # "none" THEN RemoveAnt(s, c)
       ELSE IF s.ant[c].type # "Scuba" THEN RemoveAnt(s, c) ELSE s
  ELSE s

\* Place.act
PlaceAct(s, c) ==
  IF IsWater(c)
  THEN LET s1 == IF s.guard[c].type # "none" THEN RemoveAnt(s, c) ELSE s
       IN IF s1.ant[c].type # "Scuba" THEN RemoveAnt(s1, c) ELSE s1
  ELSE s

\* AntColony.placesAct
RECURSIVE PlacesActFrom(_, _)
PlacesActFrom(s, order) ==
  IF order = <<>> THEN s
  ELSE PlacesActFrom(PlaceAct(s, Head(order)), Tail(order))
PlacesAct(s) == PlacesActFrom(s, PlaceOrder)

(***************************************************************************)
(* Hive                                                                    *)
(***************************************************************************)
\* this.waves[attackTurn] = wave
SetWave(w, attackTurn, wave) ==
  [t \in DOMAIN w \cup {attackTurn} |-> IF t = attackTurn THEN wave ELSE w[t]]

\* Hive.addWave: numBees new bees, placed in the hive and recorded for
\* attackTurn (replacing what was recorded for it).
RECURSIVE NewBees(_, _)
NewBees(s, n) ==
  IF n = 0 THEN s
  ELSE LET s1 == [s EXCEPT !.bee = Append(@, NewBee(BeeArmor, BeeDamage, NoPlace))]
       IN NewBees(AddBee(s1, HiveP, Len(s1.bee)), n - 1)
AddWave(s, attackTurn, numBees) ==
  LET s1 == NewBees(s, numBees)
      wave == [i \in 1 .. numBees |-> Len(s.bee) + i]
  IN [s1 EXCEPT !.waves = SetWave(@, attackTurn, wave)]

\* The forEach of Hive.invade; rand[i] is the entrance drawn for the i-th bee.
RECURSIVE InvadeFrom(_, _, _, _)
InvadeFrom(s, wave, rand, i) ==
  IF i > Len(wave) THEN s
  ELSE LET s1 == RemoveBee(s, HiveP, wave[i])
       IN InvadeFrom(AddBee(s1, CellP(GetEntrances[rand[i]]), wave[i]),
                     wave, rand, i + 1)

\* What Hive.invade returns: the wave of the turn, or [].
InvadeReturn(s, currentTurn) ==
  IF currentTurn \in DOMAIN s.waves THEN s.waves[currentTurn] ELSE <<>>

\* Hive.invade
Invade(s, currentTurn, rand) ==
  IF currentTurn \in DOMAIN s.waves
  THEN InvadeFrom(s, s.waves[currentTurn], rand, 1)
  ELSE s

(***************************************************************************)
(* AntGame                                                                 *)
(***************************************************************************)
\* AntColony.queenHasBees
QueenHasBees(s) == Len(s.queenBees) > 0

\* Mutant of GameIsWon: the bees still in the hive are not counted.
GameIsWonBoardOnly(s) ==
  IF QueenHasBees(s) THEN "false"
  ELSE IF Len(GetAllBees(s)) = 0 THEN "true"
  ELSE "undefined"

\* AntGame.gameIsWon: "false", "true" or "undefined"
GameIsWon(s) ==
  IF QueenHasBees(s) THEN "false"
  ELSE IF Len(GetAllBees(s)) + Len(s.hiveBees) = 0 THEN "true"
  ELSE "undefined"

(***************************************************************************)
(* The commands.  A coordinate string is modelled by the array that        *)
(* split(',') makes of it; the type name by the string toLowerCase makes.  *)
(***************************************************************************)
\* The decimal string of a small number (the property key of an array index).
NumStr(i) == <<"0", "1", "2", "3", "4", "5", "6", "7", "8", "9">>[i + 1]

\* array[key]: the index the key names, -1 when the array has no such key.
KeyIndex(key, length) ==
  IF \E i \in 0 .. length - 1 : NumStr(i) = key
  THEN CHOOSE i \in 0 .. length - 1 : NumStr(i) = key
  ELSE -1

\* this.colony.getPlaces()[coords[0]][coords[1]]:
\* threw when getPlaces()[coords[0]] is undefined (indexing it is a
\* TypeError), else the place, which is undefined for a key the row lacks.
LookupPlace(coords) ==
  LET i == KeyIndex(coords[1], NumTunnels)
      j == IF Len(coords) >= 2 THEN KeyIndex(coords[2], TunnelLength) ELSE -1
  IN IF i < 0 THEN [threw |-> TRUE, place |-> NoPlace]
     ELSE IF j < 0 THEN [threw |-> FALSE, place |-> NoPlace]
     ELSE [threw |-> FALSE, place |-> CellP(<<i, j>>)]

\* String.toLowerCase on the type names the model types in.
ToLowerCase(str) ==
  CASE str \in {"Grower", "grower"} -> "grower"
    [] str \in {"THROWER", "Thrower", "thrower"} -> "thrower"
    [] str \in {"Eater", "eater"} -> "eater"
    [] str \in {"Scuba", "scuba"} -> "scuba"
    [] str \in {"Guard", "guard"} -> "guard"
    [] OTHER -> str

\* The switch of AntGame.deployAnt: the class constructed, "none" for default.
AntClass(antType) ==
  LET l == ToLowerCase(antType)
  IN CASE l = "grower" -> "Grower"
       [] l = "thrower" -> "Thrower"
       [] l = "eater" -> "Eater"
       [] l = "scuba" -> "Scuba"
       [] l = "guard" -> "Guard"
       [] OTHER -> "none"

Undefined == "undefined"

\* Mutant of ColonyDeployAnt: food must exceed the cost (food > cost).
ColonyDeployAntStrict(s, a, place) ==
  IF s.food > GetFoodCost(a.type)
  THEN IF place = NoPlace THEN [s |-> s, ret |-> Undefined, threw |-> TRUE]
       ELSE LET r == AddAnt(s, place.c, a)
            IN IF r.ok
               THEN [s |-> [r.s EXCEPT !.food = @ - GetFoodCost(a.type)],
                     ret |-> Undefined, threw |-> FALSE]
               ELSE [s |-> r.s, ret |-> "tunnel already occupied", threw |-> FALSE]
  ELSE [s |-> s, ret |-> "not enough food", threw |-> FALSE]

\* Mutant of ColonyDeployAnt: the cost is taken before addAnt is asked.
ColonyDeployAntPayFirst(s, a, place) ==
  IF s.food >= GetFoodCost(a.type)
  THEN IF place = NoPlace THEN [s |-> s, ret |-> Undefined, threw |-> TRUE]
       ELSE LET paid == [s EXCEPT !.food = @ - GetFoodCost(a.type)]
                r == AddAnt(paid, place.c, a)
            IN IF r.ok
               THEN [s |-> r.s, ret |-> Undefined, threw |-> FALSE]
               ELSE [s |-> r.s, ret |-> "tunnel already occupied", threw |-> FALSE]
  ELSE [s |-> s, ret |-> "not enough food", threw |-> FALSE]

\* Mutant of ColonyDeployAnt: any food at all is enough (food > 0).
ColonyDeployAntOnCredit(s, a, place) ==
  IF s.food > 0
  THEN IF place = NoPlace THEN [s |-> s, ret |-> Undefined, threw |-> TRUE]
       ELSE LET r == AddAnt(s, place.c, a)
            IN IF r.ok
               THEN [s |-> [r.s EXCEPT !.food = @ - GetFoodCost(a.type)],
                     ret |-> Undefined, threw |-> FALSE]
               ELSE [s |-> r.s, ret |-> "tunnel already occupied", threw |-> FALSE]
  ELSE [s |-> s, ret |-> "not enough food", threw |-> FALSE]

\* AntColony.deployAnt: [s, ret, threw]; place NoPlace is undefined, and
\* calling addAnt on it is a TypeError.
ColonyDeployAnt(s, a, place) ==
  IF s.food >= GetFoodCost(a.type)
  THEN IF place = NoPlace THEN [s |-> s, ret |-> Undefined, threw |-> TRUE]
       ELSE LET r == AddAnt(s, place.c, a)
            IN IF r.ok
               THEN [s |-> [r.s EXCEPT !.food = @ - GetFoodCost(a.type)],
                     ret |-> Undefined, threw |-> FALSE]
               ELSE [s |-> r.s, ret |-> "tunnel already occupied", threw |-> FALSE]
  ELSE [s |-> s, ret |-> "not enough food", threw |-> FALSE]

\* AntColony.applyBoost: [s, ret, threw]
ApplyBoost(s, boost, place) ==
  IF boost \notin DOMAIN s.boosts \/ s.boosts[boost] < 1
  THEN [s |-> s, ret |-> "no such boost", threw |-> FALSE]
  ELSE IF place = NoPlace THEN [s |-> s, ret |-> Undefined, threw |-> TRUE]
  ELSE IF GetAnt(s, place.c).type = "none"
       THEN [s |-> s, ret |-> "no Ant at location", threw |-> FALSE]
  ELSE [s |-> IF VisibleSlot(s, place.c) = "guard"
              THEN [s EXCEPT !.guard[place.c].boost = boost]
              ELSE [s EXCEPT !.ant[place.c].boost = boost],
        ret |-> Undefined, threw |-> FALSE]

\* AntGame.deployAnt: [s |-> state, ret |-> the string returned]
GameDeployAnt(s, antType, coords) ==
  IF AntClass(antType) = "none" THEN [s |-> s, ret |-> "unknown ant type"]
  ELSE LET l == LookupPlace(coords)
           r == ColonyDeployAnt(s, NewAnt(AntClass(antType)), l.place)
       IN IF l.threw \/ r.threw THEN [s |-> s, ret |-> "illegal location"]
          ELSE [s |-> r.s, ret |-> r.ret]

\* AntGame.removeAnt
GameRemoveAnt(s, coords) ==
  LET l == LookupPlace(coords)
  IN IF l.threw \/ l.place = NoPlace THEN [s |-> s, ret |-> "illegal location"]
     ELSE [s |-> RemoveAnt(s, l.place.c), ret |-> Undefined]

\* AntGame.boostAnt
GameBoostAnt(s, boostType, coords) ==
  LET l == LookupPlace(coords)
      r == ApplyBoost(s, boostType, l.place)
  IN IF l.threw \/ r.threw THEN [s |-> s, ret |-> "illegal location"]
     ELSE [s |-> r.s, ret |-> r.ret]

(***************************************************************************)
(* The state machine.  A run is a session of the shell: the game is built  *)
(* (Init), then commands and turns follow.  cf names what the session      *)
(* types in and how far it goes:                                           *)
(*   types, coords, boostIns  the arguments given to deploy, remove, boost *)
(*   rolls                    the outcomes Math.random() takes for Growers *)
(*   waveTurns, maxWave       the arguments given to addWave               *)
(*   maxTurn, maxBees, maxBoost  where the session stops                   *)
(*   track                    whether `last` tells the commands apart      *)
(***************************************************************************)
InitWith(numTunnels, tunnelLength, moatFrequency, startingFood, beeArmor, beeDamage) ==
  /\ grid = [numTunnels |-> numTunnels, tunnelLength |-> tunnelLength,
             moatFrequency |-> moatFrequency]
  /\ hive = [beeArmor |-> beeArmor, beeDamage |-> beeDamage]
  /\ food = startingFood
  /\ boosts = [b \in BoostNames |-> IF b = "BugSpray" THEN 0 ELSE 1]
  /\ ant = [c \in (0 .. numTunnels - 1) \X (0 .. tunnelLength - 1) |-> NoAnt]
  /\ guard = [c \in (0 .. numTunnels - 1) \X (0 .. tunnelLength - 1) |-> NoAnt]
  /\ bees = [c \in (0 .. numTunnels - 1) \X (0 .. tunnelLength - 1) |-> <<>>]
  /\ queenBees = <<>>
  /\ hiveBees = <<>>
  /\ waves = <<>>
  /\ bee = <<>>
  /\ turn = 0
  /\ phase = "idle"
  /\ queue = <<>>
  /\ last = [op |-> "new", ret |-> Undefined]
  /\ events = <<>>
  /\ digest = [c \in (0 .. numTunnels - 1) \X (0 .. tunnelLength - 1) |-> Fresh]
  /\ scheduled = <<>>
  /\ round = NoRound
  /\ err = FALSE

Running == phase = "idle" /\ ~err

\* The mark, in scheduled, of a bee whose wave was added for a turn that had
\* already been taken.
Late == -1

\* What `last` records of a call: the method and the string it returned.  A
\* session that does not look at the strings records the call as a command.
Returned(track, op, ret) ==
  IF track THEN [op |-> op, ret |-> ret] ELSE [op |-> "command", ret |-> Undefined]

\* hive.addWave(attackTurn, numBees)
DoAddWave(attackTurn, numBees, maxBees) ==
  /\ Running
  /\ Len(bee) + numBees <= maxBees
  /\ CommitStep(AddWave(Cur, attackTurn, numBees), NoCell)
  /\ scheduled' = scheduled \o [i \in 1 .. numBees |->
                                  IF attackTurn >= turn THEN attackTurn ELSE Late]
  /\ last' = Returned(TRUE, "addWave", Undefined)
  /\ UNCHANGED <<grid, hive, round, turn, phase, queue>>

\* game.deployAnt(antType, coords)
DoDeployAnt(antType, coords, track) ==
  /\ Running
  /\ LET r == GameDeployAnt(Cur, antType, coords)
     IN CommitStep(r.s, NoCell)
        /\ last' = Returned(track, "deployAnt", r.ret)
  /\ UNCHANGED <<grid, hive, scheduled, round, turn, phase, queue>>

\* game.removeAnt(coords)
DoRemoveAnt(coords, track) ==
  /\ Running
  /\ LET r == GameRemoveAnt(Cur, coords)
     IN CommitStep(r.s, NoCell)
        /\ last' = Returned(track, "removeAnt", r.ret)
  /\ UNCHANGED <<grid, hive, scheduled, round, turn, phase, queue>>

\* game.boostAnt(boostType, coords)
DoBoostAnt(boostType, coords, track) ==
  /\ Running
  /\ LET r == GameBoostAnt(Cur, boostType, coords)
     IN CommitStep(r.s, NoCell)
        /\ last' = Returned(track, "boostAnt", r.ret)
  /\ UNCHANGED <<grid, hive, scheduled, round, turn, phase, queue>>

\* Mutant of AntsActBegin: the hive releases the wave before the ants act.
AntsActBeginInvaded(maxTurn) ==
  /\ Running
  /\ turn < maxTurn
  /\ phase' = "ants"
  /\ \E rand \in [1 .. Len(bee) -> 1 .. NumTunnels] :
       /\ queue' = GetAllAnts(Invade(Cur, turn, rand))
       /\ CommitStep(Invade(Cur, turn, rand), NoCell)
  /\ last' = Returned(TRUE, "takeTurn", Undefined)
  /\ round' = [present |-> AntsOnBoard(Cur), from |-> <<>>, acted |-> <<>>]
  /\ UNCHANGED <<grid, hive, scheduled, turn>>

\* game.takeTurn() is called; antsAct takes its snapshot.
AntsActBegin(maxTurn) ==
  /\ Running
  /\ turn < maxTurn
  /\ phase' = "ants"
  /\ queue' = GetAllAnts(Cur)
  /\ last' = Returned(TRUE, "takeTurn", Undefined)
  /\ round' = [present |-> AntsOnBoard(Cur), from |-> <<>>, acted |-> <<>>]
  /\ CommitStep(Cur, NoCell)
  /\ UNCHANGED <<grid, hive, scheduled, turn>>

\* One iteration of the forEach of antsAct.  Only a Grower draws a number.
AntStep(roll, maxBoost) ==
  /\ phase = "ants" /\ ~err /\ queue # <<>>
  /\ (roll \in BoostNames => boosts[roll] < maxBoost)
  /\ (roll # "nothing" => GetGuardedAnt(Cur, Head(queue).c).type = "Grower")
  /\ CommitStep(AntsActOne(Cur, Head(queue), roll), Head(queue).c)
  /\ queue' = Tail(queue)
  /\ round' = [round EXCEPT !.acted = @ \o ActCalls(Cur, Head(queue))]
  /\ UNCHANGED <<grid, hive, scheduled, turn, phase, last>>

\* antsAct is over; beesAct takes its snapshot.
BeesActBegin ==
  /\ phase = "ants" /\ ~err /\ queue = <<>>
  /\ phase' = "bees"
  /\ queue' = [i \in 1 .. Len(GetAllBees(Cur)) |->
                 [c |-> <<0, 0>>, slot |-> "bee", b |-> GetAllBees(Cur)[i]]]
  /\ round' = [present |-> BeesOnBoard(Cur),
               from |-> [b \in 1 .. Len(bee) |-> bee[b].place],
               acted |-> <<>>]
  /\ CommitStep(Cur, NoCell)
  /\ UNCHANGED <<grid, hive, scheduled, turn, last>>

\* One iteration of the forEach of beesAct.
BeeStep ==
  /\ phase = "bees" /\ ~err /\ queue # <<>>
  /\ CommitStep(BeeAct(Cur, Head(queue).b), NoCell)
  /\ queue' = Tail(queue)
  /\ round' = [round EXCEPT !.acted = Append(@, BeeRef(Head(queue).b))]
  /\ UNCHANGED <<grid, hive, scheduled, turn, phase, last>>

\* beesAct is over; placesAct runs.
PlacesStep ==
  /\ phase = "bees" /\ ~err /\ queue = <<>>
  /\ phase' = "invade"
  /\ CommitStep(PlacesAct(Cur), NoCell)
  /\ round' = NoRound
  /\ UNCHANGED <<grid, hive, scheduled, turn, queue, last>>

\* this.hive.invade(this.colony, this.turn)
InvadeStep ==
  /\ phase = "invade" /\ ~err
  /\ \E rand \in [1 .. Len(bee) -> 1 .. NumTunnels] :
       CommitStep(Invade(Cur, turn, rand), NoCell)
  /\ phase' = "inc"
  /\ UNCHANGED <<grid, hive, scheduled, round, turn, queue, last>>

\* this.turn++, and takeTurn returns.
IncTurn ==
  /\ phase = "inc" /\ ~err
  /\ turn' = turn + 1
  /\ phase' = "idle"
  /\ CommitStep(Cur, NoCell)
  /\ UNCHANGED <<grid, hive, scheduled, round, queue, last>>

NextWith(cf) ==
  \/ \E t \in cf.waveTurns, n \in 1 .. cf.maxWave : DoAddWave(t, n, cf.maxBees)
  \/ \E a \in cf.types, co \in cf.coords : DoDeployAnt(a, co, cf.track)
  \/ \E co \in cf.coords : DoRemoveAnt(co, cf.track)
  \/ \E b \in cf.boostIns, co \in cf.coords : DoBoostAnt(b, co, cf.track)
  \/ AntsActBegin(cf.maxTurn)
  \/ \E roll \in cf.rolls : AntStep(roll, cf.maxBoost)
  \/ BeesActBegin
  \/ BeeStep
  \/ PlacesStep
  \/ InvadeStep
  \/ IncTurn

(***************************************************************************)
(* Sessions                                                                *)
(***************************************************************************)
\* Coordinates typed in: every place of the board, a step past the end of
\* lane 0, a lane past the last one, a string without a comma, and a word.
PlaceCoords(numTunnels, tunnelLength) ==
  {<<NumStr(i), NumStr(j)>> : i \in 0 .. numTunnels - 1, j \in 0 .. tunnelLength - 1}
CoordsOf(numTunnels, tunnelLength) ==
  PlaceCoords(numTunnels, tunnelLength)
  \cup {<<"0", NumStr(tunnelLength)>>, <<NumStr(numTunnels), "0">>, <<"0">>, <<"x">>}

AllTypeNames == {"Grower", "THROWER", "eater", "Scuba", "guard", "queen"}
AllBoostInputs == BoostNames \cup {"Honey"}

\* The shell session: every command with every argument.
MaxTurn == 2
MaxBees == 1
MaxWave == 1
MaxBoost == 1
StartingFood == 5
Length == 2
Init == InitWith(1, Length, 2, StartingFood, 2, 1)
Session ==
  [types |-> AllTypeNames, coords |-> CoordsOf(1, Length),
   boostIns |-> {"StickyLeaf", "BugSpray", "Honey"}, rolls |-> Rolls,
   waveTurns |-> 0 .. MaxTurn - 1, maxWave |-> MaxWave,
   maxTurn |-> MaxTurn, maxBees |-> MaxBees, maxBoost |-> MaxBoost,
   track |-> TRUE]
Next == NextWith(Session)
Spec == Init /\ [][Next]_vars

\* The battle session: a dry lane, food for a Grower, a Thrower and a Guard,
\* bees in two waves, and turns enough for a bee to reach the queen.
BattleTurns == 3
BattleBees == 2
BattleFood == 9
BattleLength == 2
InitBattle == InitWith(1, BattleLength, 0, BattleFood, 2, 1)
Battle ==
  [types |-> {"Grower", "THROWER", "eater", "guard"},
   coords |-> PlaceCoords(1, BattleLength) \cup {<<"x">>},
   boostIns |-> {"BugSpray"}, rolls |-> {"BugSpray", "nothing"},
   waveTurns |-> 0 .. 1, maxWave |-> 1,
   maxTurn |-> BattleTurns, maxBees |-> BattleBees, maxBoost |-> MaxBoost,
   track |-> FALSE]
NextBattle == NextWith(Battle)
SpecBattle == InitBattle /\ [][NextBattle]_vars

\* The Eater session: one place, Eaters and Guards, two bees, and turns
\* enough for a digestion to end.
EaterTurns == 6
EaterBees == 2
EaterFood == 8
InitEater == InitWith(1, 1, 0, EaterFood, 2, 1)
EaterSession ==
  [types |-> {"eater", "guard"},
   coords |-> PlaceCoords(1, 1) \cup {<<"x">>},
   boostIns |-> {"Honey"}, rolls |-> {"nothing"},
   waveTurns |-> 0 .. 1, maxWave |-> EaterBees,
   maxTurn |-> EaterTurns, maxBees |-> EaterBees, maxBoost |-> MaxBoost,
   track |-> FALSE]
NextEater == NextWith(EaterSession)
SpecEater == InitEater /\ [][NextEater]_vars

\* The session of the bees: two lanes, three bees, and food for one Thrower
\* at the end of the first lane.
BeesTurns == 4
BeesBees == 3
BeesLanes == 2
BeesLength == 3
BeesFood == 4
InitBees == InitWith(BeesLanes, BeesLength, 0, BeesFood, 2, 1)
BeesSession ==
  [types |-> {"thrower"}, coords |-> {<<"0", "0">>, <<"x">>},
   boostIns |-> {"Honey"}, rolls |-> {"nothing"},
   waveTurns |-> 0 .. BeesTurns - 2, maxWave |-> 2,
   maxTurn |-> BeesTurns, maxBees |-> BeesBees, maxBoost |-> MaxBoost,
   track |-> FALSE]
NextBees == NextWith(BeesSession)
SpecBees == InitBees /\ [][NextBees]_vars


\* The session of the worked example: one dry lane of three places, food 5,
\* Throwers, one bee, two turns.
ExampleTurns == 2
ExampleBees == 1
ExampleFood == 5
ExampleLength == 3
InitExample == InitWith(1, ExampleLength, 0, ExampleFood, 2, 1)
ExampleSession ==
  [types |-> {"Thrower"}, coords |-> PlaceCoords(1, ExampleLength),
   boostIns |-> {"Honey"}, rolls |-> {"nothing"},
   waveTurns |-> {0}, maxWave |-> 1,
   maxTurn |-> ExampleTurns, maxBees |-> ExampleBees, maxBoost |-> MaxBoost,
   track |-> TRUE]
NextExample == NextWith(ExampleSession)
SpecExample == InitExample /\ [][NextExample]_vars

\* The session at the queen's door: one place, Throwers and Eaters, the
\* FlyingLeaf, two bees, and turns after a bee has reached the queen.
GoalTurns == 4
GoalBees == 2
GoalFood == 8
InitGoal == InitWith(1, 1, 0, GoalFood, 2, 1)
GoalSession ==
  [types |-> {"thrower", "eater"}, coords |-> PlaceCoords(1, 1),
   boostIns |-> {"FlyingLeaf"}, rolls |-> {"nothing"},
   waveTurns |-> 0 .. 1, maxWave |-> 1,
   maxTurn |-> GoalTurns, maxBees |-> GoalBees, maxBoost |-> MaxBoost,
   track |-> FALSE]
NextGoal == NextWith(GoalSession)
SpecGoal == InitGoal /\ [][NextGoal]_vars

\* The session of the Eater under attack: one place, one Eater, and three
\* bees that may arrive over three turns.
CoughTurns == 4
CoughBees == 3
CoughFood == 4
InitCough == InitWith(1, 1, 0, CoughFood, 2, 1)
CoughSession ==
  [types |-> {"eater"},
   coords |-> PlaceCoords(1, 1),
   boostIns |-> {"Honey"}, rolls |-> {"nothing"},
   waveTurns |-> 0 .. 2, maxWave |-> 2,
   maxTurn |-> CoughTurns, maxBees |-> CoughBees, maxBoost |-> MaxBoost,
   track |-> FALSE]
NextCough == NextWith(CoughSession)
SpecCough == InitCough /\ [][NextCough]_vars

\* The session of the leaves: one lane of two places, Throwers, the StickyLeaf
\* and the IcyLeaf, and two bees.
LeafTurns == 3
LeafBees == 2
LeafFood == 6
LeafLength == 2
InitLeaf == InitWith(1, LeafLength, 0, LeafFood, 2, 1)
LeafSession ==
  [types |-> {"thrower"},
   coords |-> PlaceCoords(1, LeafLength),
   boostIns |-> {"StickyLeaf", "IcyLeaf"}, rolls |-> {"nothing"},
   waveTurns |-> 0 .. 1, maxWave |-> 1,
   maxTurn |-> LeafTurns, maxBees |-> LeafBees, maxBoost |-> MaxBoost,
   track |-> FALSE]
NextLeaf == NextWith(LeafSession)
SpecLeaf == InitLeaf /\ [][NextLeaf]_vars

\* The session of the long lane: one lane of seven places, a Thrower or a
\* Scuba at the queen's end or in the middle, the three leaves, and bees that
\* come in at six places from the first.
RangeTurns == 3
RangeBees == 2
RangeFood == 5
RangeLength == 7
InitRange == InitWith(1, RangeLength, 0, RangeFood, 2, 1)
RangeSession ==
  [types |-> {"thrower", "scuba"},
   coords |-> {<<"0", "0">>, <<"0", "2">>, <<"0", "3">>},
   boostIns |-> {"FlyingLeaf", "StickyLeaf", "IcyLeaf"}, rolls |-> {"nothing"},
   waveTurns |-> 0 .. 1, maxWave |-> 1,
   maxTurn |-> RangeTurns, maxBees |-> RangeBees, maxBoost |-> MaxBoost,
   track |-> FALSE]
NextRange == NextWith(RangeSession)
SpecRange == InitRange /\ [][NextRange]_vars

\* The session of the rounds: one lane of two places, Eaters, Guards and
\* Throwers, the StickyLeaf, and two bees that come in together.
RoundTurns == 4
RoundBees == 2
RoundFood == 8
RoundLength == 2
InitRound == InitWith(1, RoundLength, 0, RoundFood, 2, 1)
RoundSession ==
  [types |-> {"eater", "guard", "thrower"},
   coords |-> PlaceCoords(1, RoundLength),
   boostIns |-> {"StickyLeaf"}, rolls |-> {"nothing"},
   waveTurns |-> {0}, maxWave |-> 2,
   maxTurn |-> RoundTurns, maxBees |-> RoundBees, maxBoost |-> MaxBoost,
   track |-> FALSE]
NextRound == NextWith(RoundSession)
SpecRound == InitRound /\ [][NextRound]_vars

\* The session of the open lanes: two lanes of two places, two bees, and food
\* for one Thrower, which the player may deploy or not.  Nothing gives food
\* back (there is no Grower), so the food is at MarchFood exactly as long as
\* no ant has been deployed.
MarchTurns == 5
MarchBees == 2
MarchFood == 4
MarchLanes == 2
MarchLength == 2
InitMarch == InitWith(MarchLanes, MarchLength, 0, MarchFood, 2, 1)
MarchSession ==
  [types |-> {"thrower"},
   coords |-> PlaceCoords(MarchLanes, MarchLength),
   boostIns |-> {"FlyingLeaf"}, rolls |-> {"nothing"},
   waveTurns |-> 0 .. 1, maxWave |-> 2,
   maxTurn |-> MarchTurns, maxBees |-> MarchBees, maxBoost |-> MaxBoost,
   track |-> FALSE]
NextMarch == NextWith(MarchSession)
SpecMarch == InitMarch /\ [][NextMarch]_vars
(***************************************************************************)
(* Claims about the commands (checked under Spec)                          *)
(***************************************************************************)
\* A coordinate that names a place of the board: a lane and a step in range.
WellFormed(co) ==
  /\ Len(co) = 2
  /\ \E i \in 0 .. NumTunnels - 1 : co[1] = NumStr(i)
  /\ \E j \in 0 .. TunnelLength - 1 : co[2] = NumStr(j)
CellOf(co) ==
  CHOOSE c \in Cells : co[1] = NumStr(c[1]) /\ co[2] = NumStr(c[2])
KnownTypes == {a \in AllTypeNames : a # "queen"}
ClassOf(a) == CHOOSE t \in AntTypes : ToLowerCase(t) = ToLowerCase(a)
IsCommandStep ==
  /\ phase = "idle" /\ phase' = "idle"
  /\ last'.op \in {"deployAnt", "removeAnt", "boostAnt"}
Board == <<food, boosts, turn, ant, guard, bees, queenBees, hiveBees, bee>>

\* The outcome r of deploying a on the cell of co, against the state the
\* call was made in.
C3_DeployPost(a, co, r) ==
  LET t == ClassOf(a)
      c == CellOf(co)
      cost == GetFoodCost(t)
      taken == IF t = "Guard" THEN guard[c].type # "none" ELSE ant[c].type # "none"
  IN /\ (r.ret = "not enough food") <=> (food < cost)
     /\ (food >= cost /\ taken) =>
          /\ r.ret = "tunnel already occupied"
          /\ r.s = Cur
     /\ (food >= cost /\ ~taken) =>
          /\ r.ret = Undefined
          /\ r.s.food = food - cost
          /\ IF t = "Guard"
             THEN r.s.guard = [guard EXCEPT ![c] = NewAnt(t)] /\ r.s.ant = ant
             ELSE r.s.ant = [ant EXCEPT ![c] = NewAnt(t)] /\ r.s.guard = guard

\* C3: deploy of a defender on an existing cell fails with 'not enough food'
\* if and only if food < cost; otherwise it fails with 'tunnel already
\* occupied' if the target slot (the guard slot for a Guard, the base slot for
\* any other defender) is taken; otherwise it returns nothing, puts the new
\* defender in that slot and lowers food by exactly the cost.  The command can
\* be given in every state between two turns, so what it does there is what a
\* DoDeployAnt step does.
C3_Deploy ==
  Running =>
    \A a \in KnownTypes, co \in Session.coords :
      WellFormed(co) => C3_DeployPost(a, co, GameDeployAnt(Cur, a, co))

\* C3 witness: a Guard has been deployed over a base defender, paid in full.
C3_Witness ==
  /\ last = [op |-> "deployAnt", ret |-> Undefined]
  /\ \E c \in Cells : guard[c] = NewAnt("Guard") /\ ant[c] = NewAnt("Grower")
  /\ food = StartingFood - GuardCost - GrowerCost

\* C4 (as claimed): a successful boost command lowers the inventory count of
\* that boost by exactly one and gives the boost to the visible occupant.
C4_BoostConsumed ==
  [][\A b \in Session.boostIns, co \in Session.coords :
       (phase = "idle" /\ last' = [op |-> "boostAnt", ret |-> Undefined]
        /\ DoBoostAnt(b, co, TRUE)) =>
         /\ boosts'[b] = boosts[b] - 1
         /\ LET c == CellOf(co)
            IN IF guard[c].type # "none"
               THEN guard'[c].boost = b ELSE ant'[c].boost = b]_vars

\* C5 (as claimed): deploy of a known type, remove and boost return 'illegal
\* location' whenever the coordinate is malformed or out of range.
C5_IllegalLocation ==
  [][\A co \in Session.coords : (phase = "idle" /\ ~WellFormed(co)) =>
       /\ \A a \in KnownTypes :
            DoDeployAnt(a, co, TRUE) => last'.ret = "illegal location"
       /\ DoRemoveAnt(co, TRUE) => last'.ret = "illegal location"
       /\ \A b \in Session.boostIns :
            DoBoostAnt(b, co, TRUE) => last'.ret = "illegal location"]_vars

\* C6: a deploy, remove or boost command that returns a failure string leaves
\* food, the boosts, the turn, every slot, every list of bees and every
\* insect's armor and boost unchanged.
C6_FailureChangesNothing ==
  [][(IsCommandStep /\ last'.ret # Undefined) => UNCHANGED Board]_vars

\* C6 witness: a deploy has been refused because the slot was taken, with
\* food left to pay for it.
C6_Witness ==
  /\ last = [op |-> "deployAnt", ret |-> "tunnel already occupied"]
  /\ food >= ScubaCost

\* No step of the model raises an error that the program does not catch.
NoUncaughtError == ~err

(***************************************************************************)
(* Claims about a turn (checked under SpecBattle)                          *)
(***************************************************************************)
PhaseOrder == {<<"idle", "ants">>, <<"ants", "bees">>, <<"bees", "invade">>,
               <<"invade", "inc">>, <<"inc", "idle">>}
BeeIds == 1 .. Len(bee)
EntrancePlaces == {CellP(GetEntrances[t]) : t \in 1 .. NumTunnels}
WaveOf(t) == IF t \in DOMAIN waves THEN waves[t] ELSE <<>>
Range(list) == {list[i] : i \in 1 .. Len(list)}

\* C1: takeTurn goes through its phases in one order: the ants act, then the
\* bees act, then the places act, then the hive releases the wave of the
\* current turn, and only then the turn grows by exactly 1.  While the ants
\* act no bee moves to another place and no bee leaves the hive; while the
\* bees act no bee loses armor, and food and boosts stay; the bees released
\* in a turn are, when the turn ends, in an entrance with the armor and the
\* status they were made with.
C1_Step ==
  /\ (phase' # phase => <<phase, phase'>> \in PhaseOrder)
  /\ (turn' # turn => phase = "inc" /\ phase' = "idle" /\ turn' = turn + 1)
  /\ (phase # "idle" /\ hiveBees' # hiveBees => phase = "invade")
  /\ (phase = "invade" =>
        /\ turn' = turn
        /\ Range(hiveBees') = Range(hiveBees) \ Range(WaveOf(turn))
        /\ \A b \in Range(WaveOf(turn)) : bee'[b].place \in EntrancePlaces)
  /\ (phase = "ants" =>
        \A b \in BeeIds :
          \/ bee'[b].place = bee[b].place
          \/ bee'[b].place = NoPlace
          \/ bee[b].place.k = "cell" /\ bee'[b].place = StomachP(bee[b].place.c))
  /\ (phase = "bees" /\ phase' = "bees" =>
        /\ \A b \in BeeIds : bee'[b].armor = bee[b].armor
        /\ food' = food /\ boosts' = boosts)
  /\ (phase = "inc" =>
        \A b \in Range(WaveOf(turn)) :
          /\ bee'[b].place \in EntrancePlaces
          /\ bee'[b].armor = BeeArmor
          /\ bee'[b].status = "none")
C1_PhaseOrder == [][C1_Step]_vars

\* C1 witness: the wave of the turn has been released into the place of a
\* Thrower that acted earlier in the turn, and the turn is about to end.
C1_Witness ==
  /\ phase = "inc"
  /\ \E b \in Range(WaveOf(turn)), c \in Cells :
       /\ bee[b].place = CellP(c)
       /\ ant[c].type = "Thrower"
       /\ bee[b].armor = BeeArmor

\* C2: gameIsWon is "false" when a bee is with the queen, whatever else there
\* is; else "true" when no bee is left in a tunnel place or in the hive; else
\* undefined.
C2_WinQuery ==
  LET atQueen == {b \in BeeIds : bee[b].place = QueenP}
      remaining == {b \in BeeIds : bee[b].place.k \in {"cell", "hive"}}
  IN GameIsWon(Cur) = IF atQueen # {} THEN "false"
                      ELSE IF remaining = {} THEN "true"
                      ELSE Undefined

\* C2 witness: a bee is with the queen while another is still in the hive or
\* in a tunnel.
C2_Witness ==
  /\ \E b \in BeeIds : bee[b].place = QueenP
  /\ \E b \in BeeIds : bee[b].place.k \in {"cell", "hive"}
  /\ GameIsWon(Cur) = "false"

\* C8: a bee that stings in a place with a guard damages the guard, and the
\* ant under the guard is left as it was; removeAnt on a place with a guard
\* and an ant takes the guard away and leaves the ant as it was.
C8_Step ==
  /\ (phase = "bees" /\ phase' = "bees" =>
        LET b == Head(queue).b
            c == bee[b].place.c
        IN (guard[c].type # "none" /\ bee[b].status # "cold") =>
             /\ ant'[c] = ant[c]
             /\ Len(events') = 1
             /\ events'[1].who = AntRef(c, "guard")
             /\ \/ guard'[c] = [guard[c] EXCEPT !.armor = @ - bee[b].damage]
                \/ guard'[c] = NoAnt /\ guard[c].armor <= bee[b].damage)
  /\ (phase = "idle" =>
        \A co \in Battle.coords :
          (/\ WellFormed(co)
           /\ guard[CellOf(co)].type # "none"
           /\ DoRemoveAnt(co, FALSE)) =>
             /\ guard'[CellOf(co)] = NoAnt
             /\ ant' = ant)
C8_GuardIndirection == [][C8_Step]_vars

\* C8 witness: a guard has just been stung over an ant that still has the
\* armor it was deployed with.
C8_Witness ==
  /\ phase = "bees" /\ Len(events) = 1
  /\ events[1].who.slot = "guard"
  /\ LET c == events[1].who.c
     IN /\ guard[c].type = "Guard" /\ guard[c].armor < GuardArmor
        /\ ant[c].type # "none" /\ ant[c].armor = InitialArmor(ant[c].type)

\* C9 (as claimed): every reduceArmor call lowers the armor of the insect, and
\* the insect is off its place after the call exactly when the call left its
\* armor at or below 0.
C9_DetachAtZero ==
  \A i \in 1 .. Len(events) :
    /\ events[i].after < events[i].before
    /\ events[i].wasAttached
    /\ events[i].attached <=> events[i].after > 0

(***************************************************************************)
(* Claims about the Eater (checked under SpecEater)                        *)
(***************************************************************************)
\* The bees that some place has in its list.
Listed ==
  UNION {Range(bees[c]) \cup Range(ant[c].stomach) : c \in Cells}
  \cup Range(queenBees) \cup Range(hiveBees)

\* C7: an Eater that has eaten a bee and has not been hit since keeps the bee
\* in its stomach through its next three actions, and its fourth action
\* empties the stomach and sets turnsEating to 0; between its actions the
\* stomach stays as it is while the Eater stays in its place unhit; the bee
\* is then in no place, and a bee in no place never gets a place again.
C7_Step ==
  /\ \A c \in Cells :
       (Digesting(ant[c]) /\ ~digest[c].hurt) =>
         LET h == ant[c].stomach[1]
             acting == phase = "ants" /\ queue # <<>> /\ Head(queue).c = c
         IN /\ (acting /\ digest[c].acts < 3) =>
                 /\ ant'[c].stomach = ant[c].stomach
                 /\ bee'[h].place = StomachP(c)
                 /\ digest'[c].acts = digest[c].acts + 1
            /\ (acting /\ digest[c].acts >= 3) =>
                 /\ digest[c].acts = 3
                 /\ ant'[c].stomach = <<>>
                 /\ ant'[c].turnsEating = 0
                 /\ bee'[h].place = NoPlace
                 /\ h \notin Listed'
            /\ (~acting /\ ant'[c].type = "Eater" /\ ~HitAt(events', c)) =>
                 ant'[c].stomach = ant[c].stomach
  /\ \A b \in BeeIds : bee[b].place = NoPlace => bee'[b].place = NoPlace
C7_EaterCycle == [][C7_Step]_vars

\* C7 witness: a bee that still has armor is in no place: an Eater that was
\* not hit has digested it.
C7_Witness ==
  /\ phase = "ants"
  /\ \E b \in BeeIds : bee[b].place = NoPlace /\ bee[b].armor = BeeArmor
  /\ \E c \in Cells : ant[c].type = "Eater" /\ ant[c].armor = EaterArmor
                      /\ ant[c].turnsEating = 0

(***************************************************************************)
(* Claims about Place.getClosestBee (checked under SpecBees)               *)
(***************************************************************************)
Hops == 0 .. BeesLength + 1
SetMin(S) == CHOOSE x \in S : \A y \in S : x <= y

\* The hop distances, within minD .. maxD, at which the lane of c has a place
\* with a bee, counting toward the entrance from c itself as hop 0.
Occupied(c, maxD, minD) ==
  {d \in minD .. maxD :
     c[2] + d < TunnelLength /\ bees[<<c[1], c[2] + d>>] # <<>>}

\* C10: getClosestBee(maxDistance, minDistance) on a place returns the first
\* bee of the nearest place of its own lane, toward the entrance, that has a
\* bee and lies minDistance to maxDistance hops away (both included, the
\* place itself being hop 0), and nothing when there is no such place.
C10_ClosestBee ==
  \A c \in Cells, maxD \in Hops, minD \in Hops :
    GetClosestBee(Cur, c, maxD, minD) =
      IF Occupied(c, maxD, minD) = {} THEN NoBee
      ELSE bees[<<c[1], c[2] + SetMin(Occupied(c, maxD, minD))>>][1]

\* C10 witness: a place with a bee, the next place of the lane with two bees,
\* the other lane with a bee as well: asked for exactly one hop, the place
\* answers with the first of the two.
C10_Witness ==
  \E c \in Cells :
    /\ c[2] + 1 < TunnelLength
    /\ bees[c] # <<>>
    /\ Len(bees[<<c[1], c[2] + 1>>]) >= 1
    /\ \E o \in Cells : o[1] # c[1] /\ bees[o] # <<>>
    /\ GetClosestBee(Cur, c, 1, 1) = bees[<<c[1], c[2] + 1>>][1]
    /\ GetClosestBee(Cur, c, 1, 1) # GetClosestBee(Cur, c, 1, 0)

(***************************************************************************)
(* Claims about the water (checked under Spec)                             *)
(***************************************************************************)
WaterCells == {c \in Cells : IsWater(c)}

\* C11: after placesAct, and so until takeTurn has returned, no water place
\* holds a guard and no water place holds an ant other than a Scuba; placesAct
\* leaves a Scuba in the water where it is and leaves the places that are not
\* water as they were.
C11_Step ==
  /\ (phase' \in {"invade", "inc"} \/ (phase = "inc" /\ phase' = "idle")) =>
       \A c \in WaterCells :
         guard'[c].type = "none" /\ ant'[c].type \in {"none", "Scuba"}
  /\ (phase = "bees" /\ phase' = "invade") =>
       /\ \A c \in WaterCells : ant[c].type = "Scuba" => ant'[c] = ant[c]
       /\ \A c \in Cells \ WaterCells : ant'[c] = ant[c] /\ guard'[c] = guard[c]
C11_WaterRule == [][C11_Step]_vars

\* C11 witness: placesAct has run over a water place that holds a Scuba, and
\* over a dry place that holds an ant.
C11_Witness ==
  /\ phase = "invade"
  /\ \E c \in WaterCells : ant[c] = NewAnt("Scuba")
  /\ \E c \in Cells \ WaterCells : ant[c].type # "none"

(***************************************************************************)
(* Claims about the hive (checked under SpecBees)                          *)
(***************************************************************************)
\* How many times bee b stands in a list of bees.
Count(list, b) == Cardinality({i \in 1 .. Len(list) : list[i] = b})

\* C12 (as claimed): Hive.invade returns exactly the bees it has placed, and
\* returns [] and changes nothing when no wave is recorded for the turn; when
\* takeTurn returns, every bee that an addWave call made before this takeTurn
\* scheduled for this turn has left the hive and stands in exactly one
\* entrance of the colony, also when several calls named the turn.
C12_Step ==
  /\ phase = "invade" =>
       /\ \A b \in BeeIds :
            bee'[b].place # bee[b].place <=> b \in Range(InvadeReturn(Cur, turn))
       /\ \A b \in Range(InvadeReturn(Cur, turn)) :
            bee'[b].place \in EntrancePlaces
       /\ InvadeReturn(Cur, turn) = <<>> =>
            /\ UNCHANGED <<bees, queenBees, hiveBees, bee, waves>>
            /\ UNCHANGED <<food, boosts, ant, guard>>
  /\ (phase = "inc" /\ phase' = "idle") =>
       \A b \in BeeIds :
         scheduled[b] = turn =>
           /\ Count(hiveBees', b) = 0
           /\ bee'[b].place \in EntrancePlaces
           /\ \A c \in Cells :
                Count(bees'[c], b) = (IF bee'[b].place = CellP(c) THEN 1 ELSE 0)
C12_Scheduled == [][C12_Step]_vars

(***************************************************************************)
(* The worked example (checked under SpecExample)                          *)
(***************************************************************************)
\* The entrance of the only lane, a Thrower standing in it, and the one bee
\* scheduled, before the first takeTurn, for turn 0.
ExampleEntrance == <<0, ExampleLength - 1>>
ThrowerAtEntrance == ant[ExampleEntrance].type = "Thrower"
BeeForTurn0 == Len(bee) = 1 /\ scheduled = <<0>>
TurnTaken(n) == phase = "idle" /\ turn = n /\ last.op = "takeTurn"

\* C13 (as claimed): with a Thrower at step 2 and one bee scheduled for turn
\* 0, after takeTurn the bee is in the entrance (step 2) and the Thrower has
\* reduced its armor to 1.
C13_OneTurn ==
  (TurnTaken(1) /\ ThrowerAtEntrance /\ BeeForTurn0) =>
    /\ bee[1].place = CellP(ExampleEntrance)
    /\ bee[1].armor = 1

\* C13 (amended): a Thrower deployed at step 2 leaves food = 1.  With one bee
\* (armor 2, damage 1) scheduled for turn 0, after the first takeTurn the bee
\* is in the entrance (step 2) with its armor still 2, the Thrower having
\* acted before the release; in the second takeTurn the Thrower finds it at
\* distance 0 and reduces its armor to 1, and the bee is alive on the board
\* when that takeTurn returns.
C13_Example ==
  /\ ((\E c \in Cells : ant[c].type = "Thrower") =>
        food = ExampleFood - ThrowerCost)
  /\ ((TurnTaken(1) /\ BeeForTurn0) =>
        /\ bee[1].place = CellP(ExampleEntrance)
        /\ bee[1].armor = 2
        /\ \A c \in Cells : ant[c].type = "Thrower" => ant[c].armor = ThrowerArmor)
  /\ ((turn = 1 /\ phase = "bees" /\ ThrowerAtEntrance /\ BeeForTurn0) =>
        /\ bee[1].place = CellP(ExampleEntrance)
        /\ bee[1].armor = 1)
  /\ ((TurnTaken(2) /\ BeeForTurn0) =>
        /\ bee[1].armor >= 1
        /\ bee[1].place.k = "cell"
        /\ Count(bees[bee[1].place.c], 1) = 1)

\* C13 witness: the second takeTurn has returned with nothing on the board but
\* the bee, in the entrance with armor 1: the Thrower bought with 4 of the 5
\* food has hit it once there, and was stung to death.
C13_Witness ==
  /\ TurnTaken(2) /\ BeeForTurn0
  /\ food = 1
  /\ \A c \in Cells : ant[c].type = "none"
  /\ bee[1].place = CellP(ExampleEntrance)
  /\ bee[1].armor = 1

(***************************************************************************)
(* Claims about the queen's place (checked under SpecGoal)                 *)
(***************************************************************************)
\* C14: a bee that is in the queen's place stays there, as it is, through
\* every step of a turn and every command, and gameIsWon is "false" after the
\* step.
C14_Step ==
  \A b \in BeeIds :
    bee[b].place = QueenP =>
      /\ bee'[b] = bee[b]
      /\ Count(queenBees', b) = 1
      /\ GameIsWon(Cur)' = "false"
C14_QueenBeeStays == [][C14_Step]_vars

\* C14 witness: a bee is with the queen, and in a later turn a Thrower given
\* the FlyingLeaf has acted next to it and kept its boost, finding no target.
C14_Witness ==
  /\ phase = "bees"
  /\ \E b \in BeeIds : bee[b].place = QueenP /\ bee[b].armor = BeeArmor
  /\ ant[<<0, 0>>].type = "Thrower" /\ ant[<<0, 0>>].boost = "FlyingLeaf"
  /\ \A b \in BeeIds : bee[b].place.k # "cell"

(***************************************************************************)
(* Claims about the counters (checked under Spec)                          *)
(***************************************************************************)
CountersNonNegative ==
  food >= 0 /\ \A b \in DOMAIN boosts : boosts[b] >= 0

\* C15: food and every boost count are at least 0 in every state; the turn
\* never goes down, changes only when takeTurn ends (by one), and no
\* deployAnt, removeAnt or boostAnt command changes it.
C15_Step ==
  /\ CountersNonNegative'
  /\ turn' >= turn
  /\ (turn' # turn => phase = "inc" /\ phase' = "idle" /\ turn' = turn + 1)
  /\ (IsCommandStep => turn' = turn)
C15_Counters == CountersNonNegative /\ [][C15_Step]_vars

\* C15 witness: after a turn, a deploy has spent the last of the food.
C15_Witness ==
  /\ last = [op |-> "deployAnt", ret |-> Undefined]
  /\ turn >= 1
  /\ food = 0


(***************************************************************************)
(* Claims about the Eater under attack (checked under SpecCough)           *)
(***************************************************************************)
\* The calls of reduceArmor on an Eater made by the step, with the place of
\* the Eater.
EaterHits == {i \in 1 .. Len(events') : events'[i].type = "Eater"}
HeldBy(c) == Range(ant[c].stomach)
BackInCell(h, c) == bee'[h].place = CellP(c) /\ Count(bees'[c], h) = 1

\* C16: when an Eater is hit with its counter at 1 and survives, the bee it
\* holds is back in its cell and the counter is 3; when the hit brings its
\* armor to 0 or less with the counter at 1 or 2, the bee it holds is back in
\* its cell and the Eater is gone from it; when the counter is 0, 3 or 4, no
\* held bee comes back to the cell.
C16_Step ==
  \A i \in EaterHits :
    LET e == events'[i]
        c == e.who.c
        k == e.turnsEating
        post == e.before - e.amount
    IN /\ (k = 1 /\ post > 0 =>
             /\ HeldBy(c) # {}
             /\ \A h \in HeldBy(c) : BackInCell(h, c)
             /\ ant'[c].type = "Eater" /\ ant'[c].turnsEating = 3
             /\ ant'[c].stomach = <<>>)
       /\ (k \in {1, 2} /\ post <= 0 =>
             /\ HeldBy(c) # {}
             /\ \A h \in HeldBy(c) : BackInCell(h, c)
             /\ ant'[c].type = "none")
       /\ (k \in {0, 3, 4} =>
             /\ \A h \in HeldBy(c) : ~BackInCell(h, c) /\ Count(bees'[c], h) = 0
             /\ bees'[c] = bees[c]
             /\ (post > 0 => /\ ant'[c].stomach = ant[c].stomach
                             /\ ant'[c].turnsEating = k))
C16_EaterHit == [][C16_Step]_vars

\* The cases of C16 as states: an Eater has been hit and has survived with
\* its counter at 1; an Eater holding a bee has been hit with its counter at 3.
C16_SurvivedAtOne ==
  \E i \in 1 .. Len(events) :
    /\ events[i].type = "Eater" /\ events[i].turnsEating = 1
    /\ events[i].after > 0
    /\ ant[events[i].who.c].turnsEating = 3
    /\ Len(bees[events[i].who.c]) = 2
C16_HitAtThree ==
  \E i \in 1 .. Len(events) :
    /\ events[i].type = "Eater" /\ events[i].turnsEating = 3
    /\ ant[events[i].who.c].stomach # <<>>

\* C16 witness: an Eater has been killed with its counter at 2, and the bee
\* it held stands in the cell with the two bees that stung it.
C16_Witness ==
  \E i \in 1 .. Len(events) :
    /\ events[i].type = "Eater" /\ events[i].turnsEating = 2
    /\ events[i].before - events[i].amount <= 0
    /\ ant[events[i].who.c].type = "none"
    /\ Len(bees[events[i].who.c]) = 3
    /\ \A b \in BeeIds : bee[b].place = CellP(events[i].who.c)

(***************************************************************************)
(* Claims about a guarded place (checked under SpecBattle)                 *)
(***************************************************************************)
Shielded(c) == ant[c].type # "none" /\ guard[c].type # "none"
KilledBy(evs, w) ==
  \E i \in 1 .. Len(evs) : evs[i].who = w /\ evs[i].after <= 0

\* The guard's half of C17: where a guard stands over an ant, a call that
\* brings the guard's armor to 0 or less, and place.removeAnt(), take the
\* guard away and leave the ant as it is.
C17_GuardStep ==
  \A c \in Cells :
    Shielded(c) =>
      /\ KilledBy(events', AntRef(c, "guard")) =>
           guard'[c].type = "none" /\ ant'[c] = ant[c]
      /\ RemoveAnt(Cur, c).guard[c].type = "none"
      /\ RemoveAnt(Cur, c).ant[c] = ant[c]
C17_GuardRemoved == [][C17_GuardStep]_vars

\* C17 (as claimed): where a guard stands over an ant, a call that brings the
\* armor of the ant to 0 or less empties the ant slot and leaves the guard in
\* the guard slot as it is; and the removal of the guard leaves the ant.
C17_Step ==
  /\ C17_GuardStep
  /\ \A c \in Cells :
       (Shielded(c) /\ KilledBy(events', AntRef(c, "ant"))) =>
         ant'[c].type = "none" /\ guard'[c] = guard[c]
C17_Independent == [][C17_Step]_vars


(***************************************************************************)
(* Claims about the bee's action (checked under SpecLeaf)                  *)
(***************************************************************************)
\* The step is one bee's act; the bee, and what it finds.
BeeActs == phase = "bees" /\ queue # <<>>
ActingBee == Head(queue).b
\* The bee b has stung the ant Place.getAnt shows in c, once, and has stayed.
Stung(b, c) ==
  /\ Len(events') = 1
  /\ events'[1].who = AntRef(c, VisibleSlot(Cur, c))
  /\ events'[1].amount = bee[b].damage
  /\ bee'[b].place = bee[b].place
  /\ bees' = bees /\ queenBees' = queenBees
\* The bee b has left c for the exit of c, at the end of that place's list.
Advanced(b, c) ==
  /\ events' = <<>>
  /\ bee'[b].place = GetExit(c)
  /\ Count(bees'[c], b) = 0
  /\ IF GetExit(c) = QueenP
     THEN queenBees' = Append(queenBees, b)
     ELSE bees'[GetExit(c).c] = Append(bees[GetExit(c).c], b)
  /\ ant' = ant /\ guard' = guard
\* The act of b has changed nothing but its status.
Waited(b) ==
  /\ events' = <<>>
  /\ bee' = [bee EXCEPT ![b].status = "none"]
  /\ UNCHANGED <<ant, guard, bees, queenBees, hiveBees, food, boosts>>

\* C18 (as claimed): a bee whose place has an ant and that is not cold stings
\* it and stays; any other bee that is not stuck moves one place on; the
\* status of the bee is "none" after its act.
C18_FlatStep ==
  BeeActs =>
    LET b == ActingBee
        c == bee[b].place.c
    IN /\ bee[b].place.k = "cell"
       /\ IF IsBlocked(Cur, b) /\ bee[b].status # "cold" THEN Stung(b, c)
          ELSE IF bee[b].status # "stuck" THEN Advanced(b, c)
          ELSE Waited(b)
       /\ bee'[b].status = "none"
C18_BeeActFlat == [][C18_FlatStep]_vars

\* C18 (amended): a bee whose place has an ant stings it and stays unless the
\* bee is cold, and a cold bee there does nothing; a bee whose place has no
\* ant moves one place on unless it is stuck, and a stuck bee there does
\* nothing; the status of the bee is "none" after its act.
C18_Step ==
  BeeActs =>
    LET b == ActingBee
        c == bee[b].place.c
    IN /\ bee[b].place.k = "cell"
       /\ IF IsBlocked(Cur, b)
          THEN IF bee[b].status # "cold" THEN Stung(b, c) ELSE Waited(b)
          ELSE IF bee[b].status # "stuck" THEN Advanced(b, c) ELSE Waited(b)
       /\ bee'[b].status = "none"
C18_BeeAct == [][C18_Step]_vars

\* C18 witness: the bees have acted, and a bee that a Thrower has hit at the
\* entrance this turn is still there with the Thrower alive: the bee was cold
\* and has neither stung nor moved.
C18_Witness ==
  /\ phase = "bees" /\ queue = <<>>
  /\ ant[GetEntrances[1]].type = "Thrower"
  /\ \E b \in BeeIds :
       /\ bee[b].place = CellP(GetEntrances[1])
       /\ bee[b].armor = BeeArmor - ThrowerDamage
       /\ bee[b].status = "none"


(***************************************************************************)
(* Claims about the throw (checked under SpecRange)                        *)
(***************************************************************************)
\* The step is the act of the Thrower or Scuba of place c.
Throws(c) ==
  /\ phase = "ants" /\ queue # <<>> /\ Head(queue).c = c
  /\ ant[c].type \in {"Thrower", "Scuba"}
\* The distances, up to reach, at which the places from c toward the hive hold
\* a bee.
BeesAhead(c, reach) ==
  {d \in 0 .. reach :
     c[2] + d < TunnelLength /\ bees[<<c[1], c[2] + d>>] # <<>>}
Nearest(ds) == CHOOSE d \in ds : \A e \in ds : d <= e

\* C19: a Thrower or Scuba whose boost is not the BugSpray aims at the first
\* bee of the nearest place that has one, within 5 places toward the hive
\* with the FlyingLeaf and within 3 otherwise, its own place counting as 0;
\* that bee loses exactly 1 armor, is stuck after a StickyLeaf and cold after
\* an IcyLeaf, and the ant has no boost afterwards; with no bee in reach
\* nothing changes and the ant keeps its boost.
C19_Step ==
  \A c \in Cells :
    (Throws(c) /\ ant[c].boost # "BugSpray") =>
      LET boost == ant[c].boost
          ds == BeesAhead(c, IF boost = "FlyingLeaf" THEN 5 ELSE 3)
      IN IF ds # {}
         THEN LET t == bees[<<c[1], c[2] + Nearest(ds)>>][1]
              IN /\ bee'[t].armor = bee[t].armor - 1
                 /\ bee'[t].status = IF boost = "StickyLeaf" THEN "stuck"
                                     ELSE IF boost = "IcyLeaf" THEN "cold"
                                     ELSE bee[t].status
                 /\ \A b \in BeeIds \ {t} : bee'[b] = bee[b]
                 /\ Len(events') = 1 /\ events'[1].who = BeeRef(t)
                 /\ events'[1].amount = 1
                 /\ ant' = [ant EXCEPT ![c].boost = "none"]
                 /\ guard' = guard
         ELSE /\ events' = <<>>
              /\ UNCHANGED <<ant, guard, bee, bees, queenBees, hiveBees,
                             food, boosts>>
C19_Throw == [][C19_Step]_vars

\* The cases of C19 as states: the ant at the queen's end is the only one on
\* the board and has acted with a bee just out of its reach: five places away
\* without the FlyingLeaf, six places away with it.
OnlyAntActed(c) ==
  /\ phase = "ants" /\ queue = <<>>
  /\ \A d \in Cells : ant[d].type # "none" <=> d = c
C19_KeptSticky ==
  /\ OnlyAntActed(<<0, 0>>) /\ ant[<<0, 0>>].boost = "StickyLeaf"
  /\ bees[<<0, 5>>] # <<>>
C19_KeptFlying ==
  /\ OnlyAntActed(<<0, 0>>) /\ ant[<<0, 0>>].boost = "FlyingLeaf"
  /\ bees[<<0, 6>>] # <<>>
C19_HitAtThree ==
  /\ OnlyAntActed(<<0, 3>>) /\ ant[<<0, 3>>].type = "Scuba"
  /\ \E b \in BeeIds : bee[b].place = CellP(<<0, 6>>) /\ bee[b].status = "cold"

\* C19 witness: the only ant on the board, a Thrower at the queen's end, has
\* hit a bee five places away and has no boost left.
C19_Witness ==
  /\ OnlyAntActed(<<0, 0>>)
  /\ ant[<<0, 0>>].type = "Thrower" /\ ant[<<0, 0>>].boost = "none"
  /\ Len(events) = 1 /\ events[1].who.kind = "bee"
  /\ bee[events[1].who.b].place = CellP(<<0, 5>>)
  /\ bee[events[1].who.b].armor = BeeArmor - 1


(***************************************************************************)
(* Claims about the BugSpray (checked under SpecBattle)                    *)
(***************************************************************************)
\* What the spray of the ant of c does to the bees: those of c are dead and
\* off the board, the others are as they were.
SprayedBees(c) ==
  /\ bees'[c] = <<>>
  /\ \A b \in Range(bees[c]) : bee'[b].armor <= 0 /\ bee'[b].place = NoPlace
  /\ \A b \in BeeIds \ Range(bees[c]) : bee'[b] = bee[b]
  /\ \A d \in Cells \ {c} : bees'[d] = bees[d]
  /\ queenBees' = queenBees /\ hiveBees' = hiveBees

\* The unguarded half of C20: a Thrower with the BugSpray and no guard over it
\* kills the bees of its place, leaves the other bees, and is gone from its
\* place after its act.
C20_UnguardedStep ==
  \A c \in Cells :
    (Throws(c) /\ ant[c].boost = "BugSpray" /\ guard[c].type = "none") =>
      /\ ~err'
      /\ SprayedBees(c)
      /\ ant'[c].type = "none"
C20_Unguarded == [][C20_UnguardedStep]_vars
C20_UnguardedCase ==
  /\ phase = "ants"
  /\ \E i \in 1 .. Len(events) : events[i].type = "Thrower" /\ ~events[i].guarded
  /\ \E i \in 1 .. Len(events) : events[i].type = "Bee"
  /\ \E b \in BeeIds : bee[b].place.k = "cell"

\* C20 (as claimed): the act of a Thrower or Scuba that has the BugSpray
\* ends; after it the place of the ant has no bee, every bee that was there
\* is dead, the bees of the other places are as they were, and the ant is
\* gone from its place (so that it cannot spray again).
C20_Step ==
  \A c \in Cells :
    (Throws(c) /\ ant[c].boost = "BugSpray") =>
      /\ ~err'
      /\ SprayedBees(c)
      /\ ant'[c].type = "none"
C20_Spray == [][C20_Step]_vars


(***************************************************************************)
(* Claims about the snapshots of a turn (checked under SpecRound)          *)
(***************************************************************************)
\* Every insect of the snapshot's time has had its act() called once, and no
\* other insect has.
ActedOnce ==
  /\ \A w \in round.present : Count(round.acted, w) = 1
  /\ Range(round.acted) \subseteq round.present
\* The ant under a guard acts right before the guard.
GuardedFirst ==
  \A i \in 1 .. Len(round.acted) :
    LET w == round.acted[i]
    IN (w.slot = "guard" /\ AntRef(w.c, "ant") \in round.present) =>
          i > 1 /\ round.acted[i - 1] = AntRef(w.c, "ant")
\* A bee that was in a tunnel place when beesAct began is there or one place
\* on; a bee that was in a stomach is there (also when the Eater has left the
\* board) or back in the Eater's place; any other bee is where it was.
OneHop ==
  \A b \in 1 .. Len(round.from) :
    LET p == round.from[b]
    IN bee[b].place \in
         {p} \cup (IF p.k = "cell" THEN {GetExit(p.c)}
                   ELSE IF p.k = "stomach" THEN {CellP(p.c), LostP} ELSE {})
AntsActOver == phase = "ants" /\ queue = <<>>
BeesActOver == phase = "bees" /\ queue = <<>>
RoundInv ==
  /\ \A i, j \in 1 .. Len(round.acted) :
       round.acted[i] = round.acted[j] => i = j
  /\ AntsActOver => ActedOnce /\ GuardedFirst
  /\ phase = "bees" => OneHop
  /\ BeesActOver => ActedOnce

\* C21: when antsAct is over, every ant and guard that stood on the board
\* when it began has acted exactly once, an ant under a guard right before
\* its guard; when beesAct is over, every bee that was in a tunnel place when
\* it began has acted exactly once and no bee that came into a place during
\* it has acted; a bee is never more than one place on from where it was when
\* beesAct began, and no bee goes from one tunnel place to another outside
\* its own act in beesAct.
C21_Step ==
  /\ RoundInv'
  /\ \A b \in BeeIds :
       (bee[b].place.k = "cell" /\ bee'[b].place # bee[b].place
          /\ bee'[b].place.k \in {"cell", "queen"}) =>
         /\ phase = "bees" /\ queue # <<>> /\ Head(queue).b = b
         /\ bee'[b].place = GetExit(bee[b].place.c)
C21_Snapshots == RoundInv /\ [][C21_Step]_vars

\* The cases of C21 as states: an Eater under a guard has eaten and then its
\* guard has acted; a bee has moved into a place where another bee stood when
\* beesAct began.
C21_GuardedActed ==
  /\ AntsActOver
  /\ \E c \in Cells :
       /\ round.acted = <<AntRef(c, "ant"), AntRef(c, "guard")>>
       /\ ant[c].type = "Eater" /\ ant[c].turnsEating = 1
C21_MovedIn ==
  /\ BeesActOver
  /\ \E b \in BeeIds :
       /\ round.from[b] = CellP(<<0, 1>>) /\ bee[b].place = CellP(<<0, 0>>)
       /\ \E a \in BeeIds : round.from[a] = CellP(<<0, 0>>)

\* C21 witness: beesAct is over, a bee that an Eater held when it began is
\* back in the Eater's place without having acted, and the bee that stung the
\* Eater has acted once.
C21_Witness ==
  /\ BeesActOver
  /\ Len(round.acted) = 1
  /\ \E b \in BeeIds :
       /\ round.from[b].k = "stomach"
       /\ bee[b].place = CellP(round.from[b].c)
       /\ BeeRef(b) \notin Range(round.acted)


(***************************************************************************)
(* Claims about the lists of bees (checked under SpecRound)                *)
(***************************************************************************)
\* The places whose list holds the bee b: tunnel places, the queen's place,
\* the hive, and the stomachs of the Eaters on the board.
Holders(b) ==
  {CellP(c) : c \in {d \in Cells : Count(bees[d], b) > 0}}
  \cup {StomachP(c) : c \in {d \in Cells : Count(ant[d].stomach, b) > 0}}
  \cup (IF Count(queenBees, b) > 0 THEN {QueenP} ELSE {})
  \cup (IF Count(hiveBees, b) > 0 THEN {HiveP} ELSE {})
TimesListed(b) ==
  LET RECURSIVE Sum(_)
      Sum(S) == IF S = {} THEN 0
                ELSE LET c == CHOOSE d \in S : TRUE
                     IN Count(bees[c], b) + Count(ant[c].stomach, b)
                        + Sum(S \ {c})
  IN Sum(Cells) + Count(queenBees, b) + Count(hiveBees, b)

\* C22: every bee is on the list of at most one place, at most once, and its
\* place is that place; a bee on no list has no place (or is in the stomach
\* of an Eater that has left the board).
C22_OnePlace ==
  \A b \in BeeIds :
    /\ TimesListed(b) <= 1
    /\ \A p \in Holders(b) : bee[b].place = p
    /\ Holders(b) = {} => bee[b].place \in {NoPlace, LostP}

\* C22 witness: an Eater has coughed up the bee it held when beesAct began,
\* and the bee stands in the Eater's place with the bee that stung the Eater.
C22_Witness ==
  \E c \in Cells :
    /\ ant[c].type = "Eater" /\ ant[c].turnsEating = 3 /\ ant[c].stomach = <<>>
    /\ Len(bees[c]) = 2
    /\ \E b \in Range(bees[c]) :
         phase = "bees" /\ round.from[b] = StomachP(c)


(***************************************************************************)
(* Claims about the Eater's counter (checked under SpecEater)              *)
(***************************************************************************)
\* C23: the counter of every Eater on the board is one of 0 .. 4 and its
\* stomach holds at most one bee: exactly one when the counter is 1 or 2,
\* none when it is 0.
C23_Counter ==
  \A c \in Cells :
    ant[c].type = "Eater" =>
      /\ ant[c].turnsEating \in 0 .. 4
      /\ Len(ant[c].stomach) <= 1
      /\ (ant[c].turnsEating \in {1, 2} => Len(ant[c].stomach) = 1)
      /\ (ant[c].turnsEating = 0 => ant[c].stomach = <<>>)

\* The cases of C23 as states: an Eater that has coughed up its bee counts on
\* to 4 with nothing in its stomach.
C23_EmptyAtFour ==
  \E c \in Cells :
    ant[c].type = "Eater" /\ ant[c].turnsEating = 4 /\ ant[c].stomach = <<>>

\* C23 witness: an Eater has the counter at 4 and still holds its bee; the
\* other bee stands in its place.
C23_Witness ==
  \E c \in Cells :
    /\ ant[c].type = "Eater" /\ ant[c].turnsEating = 4
    /\ Len(ant[c].stomach) = 1
    /\ bees[c] # <<>>


(***************************************************************************)
(* Claims about reduceArmor on every class (checked under SpecCough)       *)
(***************************************************************************)
\* The insects other than Eaters lose exactly the amount of the call.
C24_ExactForOthers ==
  \A i \in 1 .. Len(events) :
    events[i].type # "Eater" =>
      events[i].after = events[i].before - events[i].amount

\* C24 (as claimed): every reduceArmor call, on an Eater too, lowers the
\* armor by exactly its amount, and returns true exactly when the armor is
\* then 0 or less and the insect is off its place.
C24_ExactAmount ==
  \A i \in 1 .. Len(events) :
    /\ events[i].after = events[i].before - events[i].amount
    /\ events[i].ret <=> (events[i].after <= 0 /\ ~events[i].attached)


(***************************************************************************)
(* Claims about the march of the bees (checked under SpecMarch)            *)
(***************************************************************************)
\* No ant has been deployed so far.
NoAntEver == food = MarchFood
\* Where the bee b is between two turns, if it went into an entrance in the
\* takeTurn numbered t and one place on in every takeTurn after that.
OnTheMarch(b, t) ==
  /\ turn <= t => bee[b].place = HiveP
  /\ (t < turn /\ turn <= t + TunnelLength) =>
       /\ bee[b].place.k = "cell"
       /\ bee[b].place.c[2] = TunnelLength - (turn - t)
       /\ GameIsWon(Cur) # "true"
  /\ turn >= t + 1 + TunnelLength =>
       /\ bee[b].place = QueenP
       /\ GameIsWon(Cur) = "false"

\* The bees of the waves the hive holds march as said.
C25_ReleasedMarch ==
  (Running /\ NoAntEver) =>
    \A t \in DOMAIN waves : \A b \in Range(waves[t]) :
      scheduled[b] = t => OnTheMarch(b, t)
C25_Arrived ==
  /\ Running /\ NoAntEver /\ turn = 1 + 1 + TunnelLength
  /\ \E b \in BeeIds : scheduled[b] = 1 /\ bee[b].place = QueenP
  /\ \E b \in BeeIds : scheduled[b] = 0 /\ bee[b].place = QueenP

\* C25 (as claimed): as long as no ant has been deployed, a bee scheduled for a turn t
\* that was still to come is in the hive up to the takeTurn numbered t, in an
\* entrance after it, one place on after every further takeTurn, and in the
\* queen's place from turn t + 1 + L on, never earlier; gameIsWon is then
\* "false".
C25_March ==
  (Running /\ NoAntEver) =>
    \A b \in BeeIds : scheduled[b] # Late => OnTheMarch(b, scheduled[b])

====
